---- MODULE Spec2Model ----
(***************************************************************************)
(* Model of the image decomposition pipeline of figma-smart-image-mcp:     *)
(*   - ImageTiler.generateTiles            (dist/image/tiles.js 18-84)     *)
(*   - ImageEncoder.prototype.encodeToFit  (dist/image/tiles.js 87-226)    *)
(* and of its HTTP server (dist/index.js, kept as unnamed/part_006):       *)
(*   - FigmaSmartImageServer: /auth, /mcp, /message, session cleanup       *)
(*   - RateLimiter and the rate limiting prefix of runHttp                 *)
(*   - ImageCropper.generateCrops (dist/image/crops.js, in part_001)       *)
(*   - handleProcessFigmaLink and FigmaExporter.exportAndDownload          *)
(* Each component has its own specification (SpecTiles, SpecEncode,        *)
(* SpecServer, SpecRateLimit, SpecCrops, SpecPipeline); the variables of   *)
(* the other components stay at their idle values.                         *)
(***************************************************************************)
EXTENDS Integers, Sequences, FiniteSets, TLC

VARIABLES
    \* ---- ImageTiler.generateTiles ----
    imageWidth,     \* metadata.width  || 0 of the input image
    imageHeight,    \* metadata.height || 0 of the input image
    tilePx,         \* options.tilePx
    overlapPx,      \* options.overlapPx
    preferFormat,   \* options.preferFormat
    tpc,            \* position of generateTiles: idle, start, loop, spin, done, failed
    row,            \* outer loop variable
    col,            \* inner loop variable
    tiles,          \* the local array tiles
    returned,       \* what generateTiles returned to its caller (NoResult: nothing)
    encodeLog,      \* history: the encodeToFit calls generateTiles made, in order
    \* ---- ImageEncoder.prototype.encodeToFit ----
    originalWidth,  \* metadata.width  || 0 after the optional region extraction
    originalHeight, \* metadata.height || 0 after the optional region extraction
    maxLongEdge,    \* options.maxLongEdge
    maxBytes,       \* options.maxBytes
    epc,            \* position of encodeToFit: idle, start, quality, scale, returned, threw
    qi,             \* index in qualityLevels of the next attempt
    si,             \* index in scaleFactors of the current scale step
    scaleFactor,    \* the local scaleFactor, a rational [num, den]
    bestResult,     \* the local bestResult (NoResult: null)
    encResult,      \* what encodeToFit returned (NoResult: nothing, or it threw)
    succeeded,      \* history: some encode attempt of this call succeeded
    firstFit,       \* history: the first attempt with bytes <= maxBytes (NoResult: none)
    attemptsAfterFit, \* history: attempts started after firstFit was made
    minBytes,       \* history: the smallest bytes of a successful attempt (0: none yet)
    qualityComplete, \* history: every level of qualityLevels was attempted in the quality phase
    qualityThrew,   \* history: an attempt of the quality phase threw
    fileOnDisk,     \* the file at finalOutputPath: the attempt that wrote it (NoResult: no file)
    lastThrow,      \* history: the phase whose attempt threw in the last step ("none": no throw)
    \* ---- FigmaSmartImageServer (HTTP mode) ----
    figmaToken,     \* this.figmaToken, the global token ("" : none)
    tokenFile,      \* content of TOKEN_FILE on disk ("" : no file)
    sessionTokens,  \* this.sessionTokens: session id -> [token, age] or NoEntry
    transports,     \* keys of the Map transports of runHttp (open SSE sessions)
    sessionTransports, \* keys of this.sessionTransports
    call,           \* history: the process_figma_link call the last step started (NoCall: none)
    lastRemoval,    \* history: how the last step deleted a session token: none, cleanup, close
    \* ---- RateLimiter ----
    now,            \* Date.now()
    requests,       \* this.requests: identifier -> [count, resetTime] or NoRecord
    accepted,       \* history: per identifier, times of the accepted requests of the last windowMs
    response,       \* history: the last response of the rate limiting prefix
    \* ---- ImageCropper.generateCrops ----
    cropWidth,      \* imageWidth of generateCrops: metadata.width || 0
    cropHeight,     \* imageHeight of generateCrops: metadata.height || 0
    minCropSize,    \* options.minCropSize
    cropFormat,     \* options.preferFormat
    cpc,            \* position of generateCrops: idle, start, loop, done, failed
    cropRegions,    \* the local cropRegions
    regionIndex,    \* position of the for loop in cropRegions
    crops,          \* the local array crops
    cropIndex,      \* the local cropIndex
    cropsReturned,  \* what generateCrops returned (NoResult: nothing)
    cropFailed,     \* history: names of the regions whose encodeToFit threw, in order
    \* ---- handleProcessFigmaLink from the export on, exportAndDownload ----
    forceSourceFormat, \* force_source_format
    pipeFormat,     \* prefer_format
    includeCrops,   \* include_crops
    ppc,            \* position: idle, export, request, download, convert, overview, tiles, crops, manifest, done
    requestFormat,  \* format of the getImageExportUrl call in progress
    exportedImage,  \* exportedImage (NoResult: not exported)
    sourceForProcessing, \* sourceForProcessing (NoResult: not set)
    overview,       \* overview (NoResult: not encoded)
    pipeTiles,      \* tiles
    pipeCrops,      \* crops
    manifest,       \* the manifest written to manifest.json (NoResult: none)
    pipeResult,     \* what the handler returned (NoResult: nothing yet)
    requested,      \* history: the formats requested from Figma, in order
    conversions,    \* history: the convertSvgToPng calls, in order
    encodes,        \* history: the stages that encoded, with the source they read
    cropsThrew,     \* history: generateCrops threw
    replies,        \* history: what each getImageExportUrl request met
    \* ---- /device/authorize, /oauth/token, GET and POST /auth ----
    deviceCodes,    \* this.deviceCodes: device code -> [verified, age] or NoEntry
    authReply,      \* history: the answer the last step sent (NoReply: none)
    \* ---- generateOutputDir, ensureDir and the mkdir of encodeToFit ----
    fsNow,          \* Date.now()
    dirArg,         \* per invocation: out_dir ("" : not passed)
    fpc,            \* per invocation: start, check, mkdir, write, done, failed
    outDir,         \* per invocation: outputDir (NoDir: not chosen yet)
    existing,       \* the directories that exist on disk
    raced           \* history, per invocation: its mkdir found the directory already there

tileVars == <<imageWidth, imageHeight, tilePx, overlapPx, preferFormat,
              tpc, row, col, tiles, returned, encodeLog>>

encVars == <<originalWidth, originalHeight, maxLongEdge, maxBytes, epc, qi, si,
             scaleFactor, bestResult, encResult, succeeded, firstFit,
             attemptsAfterFit, minBytes, qualityComplete, qualityThrew,
             fileOnDisk, lastThrow>>

serverVars == <<figmaToken, tokenFile, sessionTokens, transports,
                sessionTransports, call, lastRemoval>>

limiterVars == <<now, requests, accepted, response>>

httpVars == <<serverVars, limiterVars>>

cropVars == <<cropWidth, cropHeight, minCropSize, cropFormat, cpc, cropRegions,
              regionIndex, crops, cropIndex, cropsReturned, cropFailed>>

pipeVars == <<forceSourceFormat, pipeFormat, includeCrops, ppc, requestFormat,
              exportedImage, sourceForProcessing, overview, pipeTiles, pipeCrops,
              manifest, pipeResult, requested, conversions, encodes, cropsThrew,
              replies>>

authVars == <<deviceCodes, authReply>>

fsVars == <<fsNow, dirArg, fpc, outDir, existing, raced>>

vars == <<tileVars, encVars, httpVars, cropVars, pipeVars, authVars, fsVars>>

\* ------------------------------------------------------------------ bounds
\* Largest image side of the small inputs.
MaxDim == 7
\* Largest tile size of the small inputs.
MaxTile == 4
\* Largest side of the image (or region) handed to encodeToFit.
MaxEdge == 2
\* Largest maxLongEdge handed to encodeToFit.
MaxLongEdgeOpt == 1
\* Largest maxBytes handed to encodeToFit.
MaxBudget == 2
\* Largest file size an encode attempt produces.
MaxFileBytes == 3
\* Largest image side handed to generateCrops (beside the documented samples).
MaxCropDim == 8
\* Largest minCropSize handed to generateCrops (beside the documented samples).
MaxMinCrop == 5
\* Last millisecond of the clock of the output directories.
MaxFsClock == 2
\* Lifetime of a device code in ticks (600000 ms in the code).
DeviceCodeLifetime == 2

\* The documented sample (README, Example Output; spec section 8).
SampleW == 3840
SampleH == 2160
\* DEFAULT_TILE_PX, DEFAULT_OVERLAP_PX
SampleTilePx == 1536
SampleOverlapPx == 96

\* null / nothing returned; a record, so that it compares with result records.
NoResult == [none |-> TRUE]

\* Session ids: the sessionId of an SSEServerTransport, the session_id field
\* of POST /auth, the sessionId query parameter of /message.
SessionIds == {"s1", "s2"}
\* Figma tokens that clients submit or the environment provides.
Tokens == {"tokA", "tokB"}
\* maxAge of cleanupExpiredSessions (60 * 60 * 1000 ms), in clock ticks.
maxAge == 2
\* Client addresses.
ClientIps == {"ip1", "ip2"}
\* new RateLimiter(100, 60000): maxRequests per window of windowMs, scaled.
maxRequests == 2
windowMs == 2
\* Last instant of the rate limiter's clock.
MaxClock == 4

\* this.sessionTokens.get(id) === undefined
NoEntry == [absent |-> TRUE]
\* the last step started no process_figma_link call
NoCall == [nocall |-> TRUE]
\* this.requests.get(identifier) === undefined
NoRecord == [norecord |-> TRUE]
\* nothing answered yet
NoResponse == [noresponse |-> TRUE]

Max(a, b) == IF a >= b THEN a ELSE b
MinOfSecond(a, b) == b
Min(a, b) == IF a <= b THEN a ELSE b

\* ------------------------------------------------- generateTiles: the grid
\* const stride = tilePx - overlapPx
StrideNoOverlap(t, o) == t
Stride(t, o) == t - o

\* Math.ceil(a / s) of the real quotient, for s > 0 (a may be negative:
\* Math.ceil(-4/3) = -1, Math.ceil(-1/3) = -0).
FloorDiv(a, s) == a \div s
CeilDiv(a, s) == -((-a) \div s)

\* The largest loop index told apart: no grid of the small inputs with
\* overlapPx < tilePx has that many columns or rows.
MaxIndex == MaxDim + 1

\* Infinity as a loop bound: above every index and every index + 1.
Infinity == MaxIndex + 2

\* Math.ceil(a / s) for every integer s.  For s = 0 the quotient is Infinity
\* (a > 0), -Infinity (a < 0) or NaN (a = 0); no index is below the last
\* two, which are kept as 0.
JsCeilDiv(a, s) ==
    IF s > 0 THEN CeilDiv(a, s)
    ELSE IF s < 0 THEN CeilDiv(-a, -s)
    ELSE IF a > 0 THEN Infinity
    ELSE 0

\* const cols = Math.ceil((imageWidth - overlapPx) / stride)
Cols == JsCeilDiv(imageWidth - overlapPx, Stride(tilePx, overlapPx))
\* const rows = Math.ceil((imageHeight - overlapPx) / stride)
Rows == JsCeilDiv(imageHeight - overlapPx, Stride(tilePx, overlapPx))

\* actualTileWidth / actualTileHeight: computed from the nominal origin
\* index * stride, before the origin is re-anchored.
ActualTileSizeUnclipped(index, count, imageSize) == tilePx
ActualTileSize(index, count, imageSize) ==
    LET nominal == index * Stride(tilePx, overlapPx)
    IN  IF index = count - 1
        THEN imageSize - nominal
        ELSE Min(tilePx, imageSize - nominal)

\* x / y after "Adjust top/left for better centering on edges".
TileOrigin(index, count, imageSize) ==
    IF index = count - 1 /\ count > 1
    THEN Max(0, imageSize - tilePx)
    ELSE index * Stride(tilePx, overlapPx)

\* format === "webp" ? "webp" : "jpg"
Extension(format) == IF format = "webp" THEN "webp" ELSE "jpg"

\* join(outputDir, `tile_${row}_${col}.${ext}`): the file name as its parts.
TilePath(r, c) ==
    [dir |-> "tiles", name |-> <<"tile", r, c>>, ext |-> Extension(preferFormat)]

\* finalOutputPath of encodeToFit: the path itself when it already ends with
\* the extension of the format, else the path with the extension appended.
FinalOutputPath(path, format) ==
    IF path.ext = Extension(format)
    THEN path
    ELSE [dir |-> path.dir, name |-> Append(path.name, path.ext), ext |-> Extension(format)]

\* The region handed to encodeToFit and the record pushed for cell (r, c).
\* Math.round is the identity on the integers computed here.  The fields
\* bytes, width, height are copied from the encoder's result unread.
TileRecord(r, c) ==
    [path |-> FinalOutputPath(TilePath(r, c), preferFormat),
     x |-> TileOrigin(c, Cols, imageWidth),
     y |-> TileOrigin(r, Rows, imageHeight),
     w |-> ActualTileSize(c, Cols, imageWidth),
     h |-> ActualTileSize(r, Rows, imageHeight)]

\* The cell the nested for loops visit after (r, c): col++ in the inner loop,
\* then row++ and col = 0.
NextCellColumnMajor(r, c) ==
    IF r + 1 < Rows THEN <<r + 1, c>> ELSE <<0, c + 1>>
NextCell(r, c) ==
    IF c + 1 < Cols THEN <<r, Min(c + 1, MaxIndex)>> ELSE <<r + 1, 0>>

\* Whether the loops have a body left to run at (r, c).
InGrid(r, c) == r < Rows /\ c < Cols

\* The outer loop never ends and the inner loop has no iteration: the call
\* spins without an await.
EmptyRowsForever == Rows = Infinity /\ Cols <= 0

\* The iterations of an endless inner loop from index MaxIndex on are not
\* told apart: the tile they push is left out of tiles and encodeLog.
Saturated(c) == Cols = Infinity /\ c = MaxIndex

\* The variables of an encodeToFit call while none is modelled.
EncoderIdle ==
    /\ originalWidth = 0 /\ originalHeight = 0
    /\ maxLongEdge = 0 /\ maxBytes = 0
    /\ epc = "idle" /\ qi = 0 /\ si = 0
    /\ scaleFactor = [num |-> 1, den |-> 1]
    /\ bestResult = NoResult /\ encResult = NoResult
    /\ succeeded = FALSE /\ firstFit = NoResult /\ attemptsAfterFit = 0
    /\ minBytes = 0
    /\ qualityComplete = FALSE /\ qualityThrew = FALSE
    /\ fileOnDisk = NoResult /\ lastThrow = "none"

\* The variables of generateCrops while no call of it is modelled.
CropperIdle ==
    /\ cropWidth = 0 /\ cropHeight = 0 /\ minCropSize = 0
    /\ cropFormat = "webp"
    /\ cpc = "idle" /\ cropRegions = <<>> /\ regionIndex = 0
    /\ crops = <<>> /\ cropIndex = 0
    /\ cropsReturned = NoResult /\ cropFailed = <<>>

\* The variables of the pipeline while no call of it is modelled.
PipelineIdle ==
    /\ forceSourceFormat = "auto" /\ pipeFormat = "webp" /\ includeCrops = FALSE
    /\ ppc = "idle" /\ requestFormat = "svg"
    /\ exportedImage = NoResult /\ sourceForProcessing = NoResult
    /\ overview = NoResult /\ pipeTiles = <<>> /\ pipeCrops = <<>>
    /\ manifest = NoResult /\ pipeResult = NoResult
    /\ requested = <<>> /\ conversions = <<>> /\ encodes = <<>>
    /\ cropsThrew = FALSE
    /\ replies = <<>>

\* The variables of the HTTP server while it is not modelled.
ServerIdle ==
    /\ figmaToken = "" /\ tokenFile = ""
    /\ sessionTokens = [s \in SessionIds |-> NoEntry]
    /\ transports = {} /\ sessionTransports = {}
    /\ call = NoCall /\ lastRemoval = "none"

\* The device codes and the observed answers while they are not modelled.
DeviceCodes == {"d1", "d2"}
NoReply == [endpoint |-> "none", key |-> "", outcome |-> "none"]
AuthIdle ==
    /\ deviceCodes = [d \in DeviceCodes |-> NoEntry]
    /\ authReply = NoReply

\* The output directories while no invocation is modelled.
Invocations == {1, 2}
NoDir == [given |-> "", stamp |-> -1]
FsIdle ==
    /\ fsNow = 0
    /\ dirArg = [i \in Invocations |-> ""]
    /\ fpc = [i \in Invocations |-> "idle"]
    /\ outDir = [i \in Invocations |-> NoDir]
    /\ existing = {}
    /\ raced = [i \in Invocations |-> FALSE]

\* The variables of the rate limiter while it is not modelled.
LimiterIdle ==
    /\ now = 0
    /\ requests = [ip \in ClientIps |-> NoRecord]
    /\ accepted = [ip \in ClientIps |-> <<>>]
    /\ response = NoResponse

\* The variables of generateTiles while no call of it is modelled.
TilerIdle ==
    /\ imageWidth = 0 /\ imageHeight = 0 /\ tilePx = 0 /\ overlapPx = 0
    /\ preferFormat = "webp"
    /\ tpc = "idle" /\ row = 0 /\ col = 0
    /\ tiles = <<>> /\ returned = NoResult /\ encodeLog = <<>>

\* ---------------------------------------------- generateTiles: the steps
TileInputs ==
    {<<w, h, t, o>> \in (0..MaxDim) \X (0..MaxDim) \X (1..MaxTile) \X (0..MaxTile) :
        o < t}
    \cup {<<SampleW, SampleH, SampleTilePx, SampleOverlapPx>>}

InitTiles ==
    /\ \E input \in TileInputs :
        /\ imageWidth = input[1]
        /\ imageHeight = input[2]
        /\ tilePx = input[3]
        /\ overlapPx = input[4]
    /\ preferFormat \in {"webp", "jpeg"}
    /\ tpc = "start"
    /\ row = 0
    /\ col = 0
    /\ tiles = <<>>
    /\ returned = NoResult
    /\ encodeLog = <<>>
    /\ EncoderIdle
    /\ ServerIdle
    /\ LimiterIdle
    /\ CropperIdle
    /\ PipelineIdle
    /\ AuthIdle
    /\ FsIdle

\* Lines 18-40: read the dimensions, refuse a zero dimension, compute the
\* grid and enter the loops; with no cell to visit the loops fall through to
\* "return tiles".
StartTiling ==
    /\ tpc = "start"
    /\ IF imageWidth = 0 \/ imageHeight = 0
       THEN /\ tpc' = "failed"
            /\ returned' = NoResult
       ELSE IF InGrid(0, 0)
       THEN /\ tpc' = "loop"
            /\ returned' = NoResult
       ELSE IF EmptyRowsForever
       THEN /\ tpc' = "spin"
            /\ returned' = NoResult
       ELSE /\ tpc' = "done"
            /\ returned' = [tiles |-> tiles]
    /\ UNCHANGED <<imageWidth, imageHeight, tilePx, overlapPx, preferFormat,
                   row, col, tiles, encodeLog>>
    /\ UNCHANGED <<encVars, httpVars, cropVars, pipeVars,
                   authVars, fsVars>>

\* Lines 41-83: the await of encodeToFit for cell (row, col) returns; the tile
\* is pushed and the loops advance, returning the array after the last cell.
TileEncoded ==
    /\ tpc = "loop"
    /\ LET next == NextCell(row, col)
           pushed == IF Saturated(col) THEN tiles
                     ELSE Append(tiles, TileRecord(row, col))
       IN  /\ tiles' = pushed
           /\ encodeLog' = IF Saturated(col) THEN encodeLog
                            ELSE Append(encodeLog, [row |-> row, col |-> col, ok |-> TRUE])
           /\ row' = next[1]
           /\ col' = next[2]
           /\ IF InGrid(next[1], next[2])
              THEN /\ tpc' = "loop"
                   /\ returned' = NoResult
              ELSE /\ tpc' = "done"
                   /\ returned' = [tiles |-> pushed]
    /\ UNCHANGED <<imageWidth, imageHeight, tilePx, overlapPx, preferFormat>>
    /\ UNCHANGED <<encVars, httpVars, cropVars, pipeVars,
                   authVars, fsVars>>

\* Line 60: encodeToFit throws for cell (row, col).  There is no try around
\* the await, so the rejection leaves generateTiles.
TileEncodeSkipped ==
    /\ tpc = "loop"
    /\ LET next == NextCell(row, col)
       IN  /\ encodeLog' = Append(encodeLog, [row |-> row, col |-> col, ok |-> FALSE])
           /\ row' = next[1]
           /\ col' = next[2]
           /\ IF InGrid(next[1], next[2])
              THEN /\ tpc' = "loop"
                   /\ returned' = NoResult
              ELSE /\ tpc' = "done"
                   /\ returned' = [tiles |-> tiles]
    /\ UNCHANGED <<imageWidth, imageHeight, tilePx, overlapPx, preferFormat, tiles>>
    /\ UNCHANGED <<encVars, httpVars, cropVars, pipeVars,
                   authVars, fsVars>>
TileEncodeThrows ==
    /\ tpc = "loop"
    /\ encodeLog' = Append(encodeLog, [row |-> row, col |-> col, ok |-> FALSE])
    /\ tpc' = "failed"
    /\ returned' = NoResult
    /\ UNCHANGED <<imageWidth, imageHeight, tilePx, overlapPx, preferFormat,
                   row, col, tiles>>
    /\ UNCHANGED <<encVars, httpVars, cropVars, pipeVars,
                   authVars, fsVars>>

NextTiles ==
    \/ StartTiling
    \/ TileEncoded
    \/ TileEncodeThrows

SpecTiles == InitTiles /\ [][NextTiles]_vars

\* generateTiles as handleProcessFigmaLink calls it (part_006 lines 358-368):
\* tile_px and overlap_px are whatever ProcessFigmaLinkInputSchema accepts, a
\* positive and a non-negative integer.
SchemaInputs ==
    (0..MaxDim) \X (0..MaxDim) \X (1..MaxTile) \X (0..MaxTile)

InitTileSchema ==
    /\ \E input \in SchemaInputs :
        /\ imageWidth = input[1]
        /\ imageHeight = input[2]
        /\ tilePx = input[3]
        /\ overlapPx = input[4]
    /\ preferFormat \in {"webp", "jpeg"}
    /\ tpc = "start"
    /\ row = 0
    /\ col = 0
    /\ tiles = <<>>
    /\ returned = NoResult
    /\ encodeLog = <<>>
    /\ EncoderIdle
    /\ ServerIdle
    /\ LimiterIdle
    /\ CropperIdle
    /\ PipelineIdle
    /\ AuthIdle
    /\ FsIdle

\* The call starts and every await of encodeToFit settles, by returning or
\* by throwing.  The iterations of an endless loop that are not told apart
\* are stuttering steps, so an endless run of them is a fair behaviour.
FairSpecTileSchema ==
    /\ InitTileSchema
    /\ [][NextTiles]_vars
    /\ WF_vars(StartTiling)
    /\ WF_vars(TileEncoded)

\* ------------------------------------------------ generateTiles: the claims
\* The grid cell a tile was encoded for, read off its file name tile_<row>_<col>.
TileRow(t) == t.path.name[2]
TileCol(t) == t.path.name[3]

\* The array generateTiles returned.
ReturnedTiles == IF tpc = "done" THEN returned.tiles ELSE <<>>

\* Pixel (px, py) lies inside the region (x, y, w, h) of tile t.
InTile(t, px, py) ==
    /\ t.x <= px /\ px < t.x + t.w
    /\ t.y <= py /\ py < t.y + t.h

\* n = ceil(a / s) for s > 0, stated by its defining inequalities.
IsCeil(n, a, s) == (n - 1) * s < a /\ a <= n * s
CeilOf(a, s) == CHOOSE n \in (0 - tilePx - 1)..(a + 1) : IsCeil(n, a, s)

IsSample ==
    /\ imageWidth = SampleW /\ imageHeight = SampleH
    /\ tilePx = SampleTilePx /\ overlapPx = SampleOverlapPx

\* C1: the returned tiles together cover the full image: every pixel
\* (px, py) of the W x H image lies inside the region of some returned tile.
C1_TilesCoverImage ==
    tpc = "done" =>
        \A px \in 0..(imageWidth - 1), py \in 0..(imageHeight - 1) :
            \E i \in DOMAIN ReturnedTiles : InTile(ReturnedTiles[i], px, py)

\* C2: when the grid has more than one column and W >= tilePx the
\* last-column tile has x = W - tilePx and width exactly tilePx; the same for
\* the last row with y = H - tilePx and height tilePx.
C2_EdgeTilesFullSize ==
    tpc = "done" =>
        \A i \in DOMAIN ReturnedTiles :
            LET t == ReturnedTiles[i]
            IN  /\ (TileCol(t) = Cols - 1 /\ Cols > 1 /\ imageWidth >= tilePx)
                       => (t.x = imageWidth - tilePx /\ t.w = tilePx)
                /\ (TileRow(t) = Rows - 1 /\ Rows > 1 /\ imageHeight >= tilePx)
                       => (t.y = imageHeight - tilePx /\ t.h = tilePx)

\* C3: every tile lies inside the image: 0 <= x, 0 <= y, w > 0, h > 0,
\* x + w <= W and y + h <= H.
C3_TilesInsideImage ==
    \A i \in DOMAIN tiles :
        LET t == tiles[i]
        IN  /\ 0 <= t.x /\ 0 <= t.y
            /\ t.w > 0 /\ t.h > 0
            /\ t.x + t.w <= imageWidth
            /\ t.y + t.h <= imageHeight

\* C3 witness: a returned grid of several rows and columns whose last column
\* was re-anchored away from its nominal origin.
C3_Witness ==
    /\ tpc = "done" /\ Rows > 1 /\ Cols > 1
    /\ \E i \in DOMAIN ReturnedTiles :
        /\ TileCol(ReturnedTiles[i]) = Cols - 1
        /\ ReturnedTiles[i].x # TileCol(ReturnedTiles[i]) * Stride(tilePx, overlapPx)

C5_DocumentedSample ==
    (IsSample /\ tpc = "done") =>
        /\ Len(ReturnedTiles) = 6
        /\ \E i \in DOMAIN ReturnedTiles :
            LET t == ReturnedTiles[i]
            IN  /\ TileRow(t) = 0 /\ TileCol(t) = 1
                /\ t.x = 1440 /\ t.y = 0 /\ t.w = 1536 /\ t.h = 1536
        /\ \E i \in DOMAIN ReturnedTiles :
            LET t == ReturnedTiles[i]
            IN  /\ TileRow(t) = 1 /\ TileCol(t) = 0
                /\ t.x = 0 /\ t.y = 624 /\ t.w = 1536 /\ t.h = 1536

\* The number of pixel columns two tiles share.
HorizontalOverlap(a, b) == Min(a.x + a.w, b.x + b.w) - Max(a.x, b.x)

\* C6: two horizontally adjacent tiles of the same row (columns c and c+1)
\* overlap horizontally by at least overlapPx pixels.
C6_AdjacentTilesOverlap ==
    \A i, j \in DOMAIN tiles :
        (TileRow(tiles[i]) = TileRow(tiles[j])
            /\ TileCol(tiles[j]) = TileCol(tiles[i]) + 1)
        => HorizontalOverlap(tiles[i], tiles[j]) >= overlapPx

\* C6 witness: a positive overlap, and a last column re-anchored so that it
\* shares more than overlapPx with its left neighbour.
C6_Witness ==
    /\ tpc = "done" /\ overlapPx > 0 /\ Cols > 2
    /\ \E i, j \in DOMAIN ReturnedTiles :
        /\ TileRow(ReturnedTiles[i]) = TileRow(ReturnedTiles[j])
        /\ TileCol(ReturnedTiles[j]) = TileCol(ReturnedTiles[i]) + 1
        /\ TileCol(ReturnedTiles[j]) = Cols - 1
        /\ HorizontalOverlap(ReturnedTiles[i], ReturnedTiles[j]) > overlapPx

\* C7: tiles are encoded and returned in row-major order: the i-th encode
\* call and the i-th tile are those of cell (row, col) with
\* i = row*cols + col (counting from 0), written to tile_<row>_<col>.<ext>;
\* the returned array is the whole grid.
C7_RowMajorOrder ==
    /\ \A i \in DOMAIN encodeLog :
        /\ encodeLog[i].row = (i - 1) \div Cols
        /\ encodeLog[i].col = (i - 1) % Cols
    /\ \A i \in DOMAIN tiles :
        LET r == (i - 1) \div Cols
            c == (i - 1) % Cols
        IN  /\ tiles[i].path = [dir |-> "tiles", name |-> <<"tile", r, c>>,
                                ext |-> IF preferFormat = "webp" THEN "webp" ELSE "jpg"]
            /\ tiles[i].x = TileOrigin(c, Cols, imageWidth)
            /\ tiles[i].y = TileOrigin(r, Rows, imageHeight)
    /\ (tpc = "done" /\ Rows > 0 /\ Cols > 0) =>
            (ReturnedTiles = tiles /\ Len(ReturnedTiles) = Rows * Cols)

\* C7 witness: a returned grid with several rows and several columns.
C7_Witness ==
    /\ tpc = "done" /\ Rows > 1 /\ Cols > 2 /\ Len(ReturnedTiles) = Rows * Cols

\* C8: when the encoding of a tile fails, generateTiles fails: nothing is
\* returned and the failing encode call is the last one made.
C8_TileFailureFailsAll ==
    \A i \in DOMAIN encodeLog :
        ~encodeLog[i].ok =>
            /\ i = Len(encodeLog)
            /\ tpc = "failed"
            /\ returned = NoResult

\* C8 witness: the encode of a tile in the middle of the grid failed after
\* earlier tiles had been encoded.
C8_Witness ==
    /\ tpc = "failed"
    /\ Len(encodeLog) > 1
    /\ Len(encodeLog) < Rows * Cols
    /\ ~encodeLog[Len(encodeLog)].ok

\* C36: generateTiles uses at least one column and at least one row: for
\* W > 0, H > 0 and 0 <= overlapPx < tilePx it returns at least one tile.
C36_AtLeastOneTile ==
    (tpc = "done" /\ imageWidth > 0 /\ imageHeight > 0
        /\ 0 <= overlapPx /\ overlapPx < tilePx) =>
        /\ Cols >= 1
        /\ Rows >= 1
        /\ Len(ReturnedTiles) >= 1

\* C37: for every tile_px and overlap_px the input schema accepts, tile
\* generation makes finitely many encode calls and the call eventually ends
\* with a result or an error.
C37_TilingTerminates == <>(tpc \in {"done", "failed"})

\* ------------------------------------------------------------ encodeToFit
\* const qualityLevels = [95, 90, ..., 20]
QualityLevels == <<95, 90, 85, 80, 75, 70, 65, 60, 55, 50, 45, 40, 35, 30, 25, 20>>

\* const scaleFactors = [0.9, 0.8, 0.7, 0.6, 0.5, 0.4, 0.3, 0.25, 0.2]
ScaleFactors ==
    <<[num |-> 9, den |-> 10], [num |-> 8, den |-> 10], [num |-> 7, den |-> 10],
      [num |-> 6, den |-> 10], [num |-> 5, den |-> 10], [num |-> 4, den |-> 10],
      [num |-> 3, den |-> 10], [num |-> 25, den |-> 100], [num |-> 2, den |-> 10]>>

\* Math.min on two scale factors, compared as rationals.
ScaleLeq(a, b) == a.num * b.den <= b.num * a.den
ScaleMinAssign(a, b) == b
ScaleMin(a, b) == IF ScaleLeq(a, b) THEN a ELSE b

\* let scaleFactor = longEdge > maxLongEdge ? maxLongEdge / longEdge : 1
InitialScale ==
    LET longEdge == Max(originalWidth, originalHeight)
    IN  IF longEdge > maxLongEdge
        THEN [num |-> maxLongEdge, den |-> longEdge]
        ELSE [num |-> 1, den |-> 1]

\* if (bytes <= maxBytes)
FitsBudgetStrict(bytes) == bytes < maxBytes
FitsBudget(bytes) == bytes <= maxBytes

\* for (const quality of qualityLevels): a level follows the one of index q.
LadderHasNextShort(q) == q < Len(QualityLevels) - 1
LadderHasNext(q) == q < Len(QualityLevels)

\* The record an attempt builds (the fields the search reads or returns;
\* path, width, height and format are carried along unread).
AttemptResult(bytes) ==
    [bytes |-> bytes, quality |-> QualityLevels[qi], scaleFactor |-> scaleFactor]

\* Lines 222-225: throw when bestResult is null, else return it.
EncodeReturnHardBudget(best) ==
    /\ epc' = IF best = NoResult \/ best.bytes > maxBytes THEN "threw" ELSE "returned"
    /\ encResult' = IF best = NoResult \/ best.bytes > maxBytes THEN NoResult ELSE best
    /\ UNCHANGED <<qi, si, scaleFactor>>
EncodeReturn(best) ==
    /\ epc' = IF best = NoResult THEN "threw" ELSE "returned"
    /\ encResult' = best
    /\ UNCHANGED <<qi, si, scaleFactor>>

\* Lines 170-172: the scale step of index step begins: scaleFactor is lowered
\* to at most scaleFactors[step] and the quality ladder restarts.
BeginScaleStep(step) ==
    /\ epc' = "scale"
    /\ si' = step
    /\ qi' = 1
    /\ scaleFactor' = ScaleMin(scaleFactor, ScaleFactors[step])
    /\ encResult' = NoResult

\* Lines 167-169 and 222-225: after the quality loop, the scale phase is
\* entered when bestResult is null or over the budget.
AfterQualityPhase(best) ==
    IF best = NoResult \/ best.bytes > maxBytes
    THEN BeginScaleStep(1)
    ELSE EncodeReturn(best)

\* Lines 217-225: after the quality loop of a scale step, stop when bestResult
\* meets the budget, else go on to the next scale step, if any.
AfterScaleStep(best) ==
    IF best # NoResult /\ best.bytes <= maxBytes
    THEN EncodeReturn(best)
    ELSE IF si < Len(ScaleFactors)
    THEN BeginScaleStep(si + 1)
    ELSE EncodeReturn(best)

\* The file at finalOutputPath after an attempt threw: untouched when the
\* throw came before toFile opened it (extract, resize, metadata), else what
\* the failed write left there, which is the output of no attempt.
FailedWrite == [failed |-> TRUE]
FileAfterThrow(written) == IF written THEN FailedWrite ELSE fileOnDisk

\* History of an attempt that was started (encoded or thrown).
NoteAttempt ==
    attemptsAfterFit' = IF firstFit # NoResult THEN attemptsAfterFit + 1
                        ELSE attemptsAfterFit

\* History of an attempt that wrote a file of the given size.
NoteSuccess(bytes) ==
    minBytes' = IF minBytes = 0 \/ bytes < minBytes THEN bytes ELSE minBytes

\* The reported width and height may be 0 (metadata.width || 0); maxBytes
\* and maxLongEdge are positive.
EncodeInputs ==
    (0..MaxEdge) \X (0..MaxEdge) \X (1..MaxLongEdgeOpt) \X (1..MaxBudget)

InitEncode ==
    /\ \E input \in EncodeInputs :
        /\ originalWidth = input[1]
        /\ originalHeight = input[2]
        /\ maxLongEdge = input[3]
        /\ maxBytes = input[4]
    /\ epc = "start"
    /\ qi = 0
    /\ si = 0
    /\ scaleFactor = [num |-> 1, den |-> 1]
    /\ bestResult = NoResult
    /\ encResult = NoResult
    /\ succeeded = FALSE
    /\ firstFit = NoResult
    /\ attemptsAfterFit = 0
    /\ minBytes = 0
    /\ qualityComplete = FALSE /\ qualityThrew = FALSE
    /\ fileOnDisk = NoResult /\ lastThrow = "none"
    /\ TilerIdle
    /\ ServerIdle
    /\ LimiterIdle
    /\ CropperIdle
    /\ PipelineIdle
    /\ AuthIdle
    /\ FsIdle

encInputs == <<originalWidth, originalHeight, maxLongEdge, maxBytes>>

\* Lines 88-119: the output directory, the metadata, the initial scale.
EncodeStart ==
    /\ epc = "start"
    /\ epc' = "quality"
    /\ qi' = 1
    /\ scaleFactor' = InitialScale
    /\ UNCHANGED <<si, bestResult, encResult, succeeded, firstFit, attemptsAfterFit,
                   minBytes, qualityComplete, qualityThrew, fileOnDisk, lastThrow>>
    /\ UNCHANGED encInputs
    /\ UNCHANGED <<tileVars, httpVars, cropVars, pipeVars,
                   authVars, fsVars>>

\* Lines 90-106: mkdir or metadata() rejects (unreadable or corrupt input);
\* these awaits are outside every try.
EncodeStartThrows ==
    /\ epc = "start"
    /\ epc' = "threw"
    /\ UNCHANGED <<qi, si, scaleFactor, bestResult, encResult, succeeded, firstFit,
                   attemptsAfterFit, minBytes, qualityComplete,
                   qualityThrew, fileOnDisk, lastThrow>>
    /\ UNCHANGED encInputs
    /\ UNCHANGED <<tileVars, httpVars, cropVars, pipeVars,
                   authVars, fsVars>>

\* Lines 120-162 (and what follows the loop): an attempt of the quality phase
\* writes a file of some size.
QualityAttemptEncoded ==
    /\ epc = "quality"
    /\ \E bytes \in 1..MaxFileBytes :
        LET result == AttemptResult(bytes)
        IN  /\ bestResult' = result
            /\ fileOnDisk' = result
            /\ lastThrow' = "none"
            /\ succeeded' = TRUE
            /\ firstFit' = IF firstFit = NoResult /\ bytes <= maxBytes
                           THEN result ELSE firstFit
            /\ NoteAttempt
            /\ NoteSuccess(bytes)
            /\ IF FitsBudget(bytes)
               THEN AfterQualityPhase(result)
               ELSE IF LadderHasNext(qi)
               THEN /\ qi' = qi + 1
                    /\ UNCHANGED <<epc, si, scaleFactor, encResult>>
               ELSE AfterQualityPhase(result)
    /\ qualityComplete' = (qi = Len(QualityLevels))
    /\ UNCHANGED qualityThrew
    /\ UNCHANGED encInputs
    /\ UNCHANGED <<tileVars, httpVars, cropVars, pipeVars,
                   authVars, fsVars>>

\* Lines 163-165: an attempt of the quality phase throws: break.
QualityAttemptThrows ==
    /\ epc = "quality"
    /\ NoteAttempt
    /\ AfterQualityPhase(bestResult)
    /\ qualityComplete' = (qi = Len(QualityLevels))
    /\ qualityThrew' = TRUE
    /\ \E written \in BOOLEAN : fileOnDisk' = FileAfterThrow(written)
    /\ lastThrow' = "quality"
    /\ UNCHANGED <<bestResult, succeeded, firstFit, minBytes>>
    /\ UNCHANGED encInputs
    /\ UNCHANGED <<tileVars, httpVars, cropVars, pipeVars,
                   authVars, fsVars>>

\* Lines 172-212 (and what follows the loop): an attempt of a scale step
\* writes a file of some size.
ScaleAttemptEncoded ==
    /\ epc = "scale"
    /\ \E bytes \in 1..MaxFileBytes :
        LET result == AttemptResult(bytes)
        IN  /\ bestResult' = result
            /\ fileOnDisk' = result
            /\ lastThrow' = "none"
            /\ succeeded' = TRUE
            /\ firstFit' = IF firstFit = NoResult /\ bytes <= maxBytes
                           THEN result ELSE firstFit
            /\ NoteAttempt
            /\ NoteSuccess(bytes)
            /\ IF FitsBudget(bytes)
               THEN AfterScaleStep(result)
               ELSE IF LadderHasNext(qi)
               THEN /\ qi' = qi + 1
                    /\ UNCHANGED <<epc, si, scaleFactor, encResult>>
               ELSE AfterScaleStep(result)
    /\ UNCHANGED <<qualityComplete, qualityThrew>>
    /\ UNCHANGED encInputs
    /\ UNCHANGED <<tileVars, httpVars, cropVars, pipeVars,
                   authVars, fsVars>>

\* Lines 213-215: an attempt of a scale step throws: break out of the
\* quality loop of that step.
ScaleAttemptThrows ==
    /\ epc = "scale"
    /\ NoteAttempt
    /\ AfterScaleStep(bestResult)
    /\ \E written \in BOOLEAN : fileOnDisk' = FileAfterThrow(written)
    /\ lastThrow' = "scale"
    /\ UNCHANGED <<bestResult, succeeded, firstFit, minBytes, qualityComplete,
                   qualityThrew>>
    /\ UNCHANGED encInputs
    /\ UNCHANGED <<tileVars, httpVars, cropVars, pipeVars,
                   authVars, fsVars>>

NextEncode ==
    \/ EncodeStart
    \/ EncodeStartThrows
    \/ QualityAttemptEncoded
    \/ QualityAttemptThrows
    \/ ScaleAttemptEncoded
    \/ ScaleAttemptThrows

SpecEncode == InitEncode /\ [][NextEncode]_vars

\* -------------------------------------------------- encodeToFit: the claims
\* C9: encodeToFit fails exactly when no encode attempt of the call
\* succeeded; when some attempt succeeded it returns an artifact, also when
\* no attempt met maxBytes.
C9_FailsIffNoAttemptSucceeded ==
    /\ epc = "threw" => (~succeeded /\ encResult = NoResult)
    /\ epc = "returned" => (succeeded /\ encResult # NoResult)
    /\ (succeeded /\ epc \notin {"quality", "scale"}) => epc = "returned"

\* C9 witness: the call returned an artifact although no attempt met the
\* budget, after the whole search.
C9_Witness ==
    /\ epc = "returned"
    /\ firstFit = NoResult
    /\ encResult.bytes > maxBytes
    /\ si = Len(ScaleFactors)

\* C10: the search stops at the first attempt whose bytes <= maxBytes: that
\* attempt (the one at the position where the search stands) is the returned
\* artifact and no attempt is made after it.
C10_StopsAtFirstFit ==
    firstFit # NoResult =>
        /\ epc = "returned"
        /\ encResult = firstFit
        /\ encResult.bytes <= maxBytes
        /\ encResult.quality = QualityLevels[qi]
        /\ encResult.scaleFactor = scaleFactor
        /\ attemptsAfterFit = 0

\* C10 witness: the budget was first met in the scale phase, after attempts
\* over the budget, and that attempt was returned.
C10_Witness ==
    /\ firstFit # NoResult
    /\ epc = "returned"
    /\ si > 1
    /\ qi > 1
    /\ encResult.bytes = maxBytes

\* C11: when no attempt of the call met maxBytes, the returned artifact is the
\* one with the smallest bytes among all successful attempts of the call.
C11_ReturnsSmallestWhenUnmet ==
    (epc = "returned" /\ firstFit = NoResult) => encResult.bytes = minBytes

\* C12 (as claimed): the scale phase is entered, and an attempt made at a
\* reduced scale, only after every quality level 95..20 was attempted at the
\* initial scale (an attempt that met the budget ends the call).
C12_QualityLadderBeforeScale ==
    epc = "scale" => qualityComplete

\* C12 (amended): the scale phase is entered only after every quality level
\* was attempted at the initial scale or an attempt at the initial scale threw.
C12_QualityLadderOrThrowBeforeScale ==
    /\ epc = "scale" => (qualityComplete \/ qualityThrew)
    /\ epc = "quality" => (~qualityComplete /\ ~qualityThrew /\ firstFit = NoResult)
    /\ (epc = "returned" /\ ~qualityComplete /\ ~qualityThrew) =>
            (firstFit # NoResult /\ encResult.scaleFactor = InitialScale)

\* C12 witness: the scale phase was entered after the whole quality ladder
\* was attempted, every attempt over the budget and none throwing.
C12_Witness ==
    /\ epc = "scale"
    /\ qualityComplete /\ ~qualityThrew
    /\ bestResult # NoResult
    /\ bestResult.quality = 20
    /\ bestResult.scaleFactor = InitialScale

\* C13: within one call the scale factor of successive attempts never
\* increases: the quality phase runs at min(1, maxLongEdge / longEdge), no
\* step raises scaleFactor, and the returned scaleFactor s satisfies
\* 0 < s <= initial scale.
ScaleNotRaised ==
    epc \in {"quality", "scale"} => ScaleLeq(scaleFactor', scaleFactor)
C13_ScaleNonIncreasing ==
    /\ [][ScaleNotRaised]_vars
    /\ [](epc = "quality" =>
            LET longEdge == IF originalWidth >= originalHeight
                            THEN originalWidth ELSE originalHeight
            IN  IF maxLongEdge < longEdge
                THEN scaleFactor.num * longEdge = maxLongEdge * scaleFactor.den
                ELSE scaleFactor.num = scaleFactor.den)
    /\ [](epc = "returned" =>
            /\ encResult.scaleFactor.num > 0 /\ encResult.scaleFactor.den > 0
            /\ ScaleLeq(encResult.scaleFactor, InitialScale))

\* C13 witness: an initial scale below 1 and a returned artifact encoded at
\* a scale strictly below the initial one.
C13_Witness ==
    /\ epc = "returned"
    /\ ~ScaleLeq([num |-> 1, den |-> 1], InitialScale)
    /\ ~ScaleLeq(InitialScale, encResult.scaleFactor)

\* C15: when the image reports zero width or zero height, encodeToFit fails
\* before any encode attempt is made: no attempt is started and nothing is
\* returned.
C15_ZeroDimensionsRejectedFirst ==
    (originalWidth = 0 \/ originalHeight = 0) =>
        /\ ~succeeded /\ ~qualityThrew
        /\ epc \notin {"scale", "returned"}

\* A step in which an encode attempt threw ends the phase the attempt was
\* in and leaves bestResult as it was.
ThrowEndsPhase ==
    /\ lastThrow' = "quality" => (epc' # "quality" /\ bestResult' = bestResult)
    /\ lastThrow' = "scale" => (epc' # "scale" /\ bestResult' = bestResult)

\* C33: when an encode attempt throws, the remaining attempts of the current
\* phase are not made (quality phase: no further quality level at the
\* initial scale; scale phase: no further attempt at any scale step), and
\* the result obtained before the error is kept.
C33_ThrowEndsPhase == [][ThrowEndsPhase]_vars

\* A step that begins a scale step lowers scaleFactor strictly.
ScaleLowered ==
    (epc' = "scale" /\ si' # si) => ~ScaleLeq(scaleFactor, scaleFactor')

C35_FileMatchesReturnedRecord ==
    epc = "returned" => fileOnDisk = encResult

\* ===================================================== the HTTP server
\* Times: createdAt of a session entry is kept as age = Date.now() - createdAt,
\* the only way the code reads it; ages above maxAge are not told apart.
\* The handlers below are requests the rate limiting prefix of runHttp let
\* through (SpecRateLimit); a request it refuses returns before any handler.

\* The body of a tools/call request for process_figma_link as the client sends
\* it: the client chooses params._meta.sessionId and
\* params.arguments._meta.sessionId ("" : the field is absent).
CallBody(paramsMeta, argsMeta) ==
    [params |-> [name |-> "process_figma_link",
                 meta |-> [sessionId |-> paramsMeta],
                 arguments |-> [meta |-> [sessionId |-> argsMeta]]]]

\* /message, lines 797-802: parsedBody.params._meta = { ...parsedBody.params._meta, sessionId }
InjectSessionId(body, sessionId) ==
    [body EXCEPT !.params.meta.sessionId = sessionId]

\* CallToolRequestSchema handler, line 231: handleProcessFigmaLink(request.params.arguments)
HandlerArguments(body) == body.params.arguments

\* handleProcessFigmaLink, lines 238-239: args._meta?.sessionId, then sessionId || ""
ArgsSessionId(args) == args.meta.sessionId

\* this.sessionTokens.get(sessionId) with a token in it
HasSessionToken(sessionId) ==
    /\ sessionId \in SessionIds
    /\ sessionTokens[sessionId] # NoEntry
    /\ sessionTokens[sessionId].token # ""

\* getTokenForSession: the session's token, else the global token.
GetTokenForSession(sessionId) ==
    IF HasSessionToken(sessionId)
    THEN sessionTokens[sessionId].token
    ELSE figmaToken

\* The token stored under a session id ("" : none).
StoredToken(sessionId) ==
    IF HasSessionToken(sessionId) THEN sessionTokens[sessionId].token ELSE ""

\* cleanupExpiredSessions: now - data.createdAt > maxAge
SessionExpiredNever(entry) == FALSE
SessionExpired(entry) == entry.age > maxAge

\* The constructor: figmaToken = process.env.FIGMA_TOKEN || loadTokenFromFile() || "",
\* with no token file on disk; empty maps.
InitServer ==
    /\ figmaToken \in {""} \cup Tokens
    /\ tokenFile = ""
    /\ sessionTokens = [s \in SessionIds |-> NoEntry]
    /\ transports = {}
    /\ sessionTransports = {}
    /\ call = NoCall
    /\ lastRemoval = "none"
    /\ LimiterIdle
    /\ TilerIdle
    /\ EncoderIdle
    /\ CropperIdle
    /\ PipelineIdle
    /\ AuthIdle
    /\ FsIdle

\* POST /auth with the form fields token and session_id ("" : absent).
\* With a session id the token is stored for the session; without one it
\* becomes the global token and saveTokenToFile writes it to TOKEN_FILE
\* (written: writeFileSync did not throw).
AuthStore(sessionId, token, written) ==
    /\ IF sessionId # ""
       THEN /\ sessionTokens' =
                  IF token # ""
                  THEN [sessionTokens EXCEPT ![sessionId] = [token |-> token, age |-> 0]]
                  ELSE sessionTokens
            /\ UNCHANGED <<figmaToken, tokenFile>>
       ELSE /\ figmaToken' = token
            /\ tokenFile' = IF token # "" /\ written THEN token ELSE tokenFile
            /\ UNCHANGED sessionTokens
    /\ call' = NoCall
    /\ lastRemoval' = "none"
    /\ UNCHANGED <<transports, sessionTransports>>
    /\ UNCHANGED <<limiterVars, tileVars, encVars, cropVars, pipeVars, fsVars>>

\* POST /auth where its answer is not observed.
AuthPost(sessionId, token, written) ==
    /\ AuthStore(sessionId, token, written)
    /\ UNCHANGED authVars

\* GET /mcp: a new SSEServerTransport with a session id no open transport has.
McpConnect(sessionId) ==
    /\ sessionId \notin transports
    /\ transports' = transports \cup {sessionId}
    /\ sessionTransports' = sessionTransports \cup {sessionId}
    /\ call' = NoCall
    /\ lastRemoval' = "none"
    /\ UNCHANGED <<figmaToken, tokenFile, sessionTokens>>
    /\ UNCHANGED <<limiterVars, tileVars, encVars, cropVars, pipeVars,
                   authVars, fsVars>>

\* res.on("close") of an SSE connection.
McpClose(sessionId) ==
    /\ sessionId \in transports
    /\ transports' = transports \ {sessionId}
    /\ sessionTransports' = sessionTransports \ {sessionId}
    /\ sessionTokens' = [sessionTokens EXCEPT ![sessionId] = NoEntry]
    /\ lastRemoval' = IF sessionTokens[sessionId] # NoEntry THEN "close" ELSE "none"
    /\ call' = NoCall
    /\ UNCHANGED <<figmaToken, tokenFile>>
    /\ UNCHANGED <<limiterVars, tileVars, encVars, cropVars, pipeVars,
                   authVars, fsVars>>

\* POST /message?sessionId=S carrying a process_figma_link call, up to the
\* token check of handleProcessFigmaLink (a call with no token is answered
\* "Figma token is not configured": token = "").  The fields stored and
\* fromSession are history: the token stored under S when the call arrived,
\* and whether the token used was read from this.sessionTokens.
Message(sessionId, paramsMeta, argsMeta) ==
    /\ sessionId \in transports
    /\ LET body == InjectSessionId(CallBody(paramsMeta, argsMeta), sessionId)
           key == ArgsSessionId(HandlerArguments(body))
       IN call' = [session |-> sessionId,
                   key |-> key,
                   token |-> GetTokenForSession(key),
                   stored |-> StoredToken(sessionId),
                   fromSession |-> HasSessionToken(key)]
    /\ lastRemoval' = "none"
    /\ UNCHANGED <<figmaToken, tokenFile, sessionTokens, transports,
                   sessionTransports>>
    /\ UNCHANGED <<limiterVars, tileVars, encVars, cropVars, pipeVars,
                   authVars, fsVars>>

\* The interval timer of the constructor fires: cleanupExpiredSessions.
CleanupExpiredSessions ==
    LET expired == {s \in SessionIds :
                        sessionTokens[s] # NoEntry /\ SessionExpired(sessionTokens[s])}
    IN  /\ sessionTokens' = [s \in SessionIds |->
                                IF s \in expired THEN NoEntry ELSE sessionTokens[s]]
        /\ sessionTransports' = sessionTransports \ expired
        /\ lastRemoval' = IF expired # {} THEN "cleanup" ELSE "none"
        /\ call' = NoCall
        /\ UNCHANGED <<figmaToken, tokenFile, transports>>
        /\ UNCHANGED <<limiterVars, tileVars, encVars, cropVars, pipeVars,
                   authVars, fsVars>>

\* Time passes: every stored entry gets one tick older.
Tick ==
    /\ sessionTokens' = [s \in SessionIds |->
            IF sessionTokens[s] = NoEntry
            THEN NoEntry
            ELSE [sessionTokens[s] EXCEPT !.age = Min(@ + 1, maxAge + 1)]]
    /\ call' = NoCall
    /\ lastRemoval' = "none"
    /\ UNCHANGED <<figmaToken, tokenFile, transports, sessionTransports>>
    /\ UNCHANGED <<limiterVars, tileVars, encVars, cropVars, pipeVars,
                   authVars, fsVars>>

AuthPostFor(sessionId) ==
    \E token \in {""} \cup Tokens, written \in BOOLEAN :
        AuthPost(sessionId, token, written)

NextServer ==
    \/ \E sessionId \in {""} \cup SessionIds : AuthPostFor(sessionId)
    \/ \E sessionId \in SessionIds : McpConnect(sessionId)
    \/ \E sessionId \in SessionIds : McpClose(sessionId)
    \/ \E sessionId \in SessionIds, paramsMeta, argsMeta \in {""} \cup SessionIds :
            Message(sessionId, paramsMeta, argsMeta)
    \/ CleanupExpiredSessions
    \/ Tick

SpecServer == InitServer /\ [][NextServer]_vars

\* The clock advances and the interval timer keeps firing.
FairSpecServer ==
    /\ SpecServer
    /\ WF_vars(Tick)
    /\ WF_vars(CleanupExpiredSessions)

\* ------------------------------------------------ HTTP server: the claims
\* C16: a process_figma_link call that arrives through /message on session S,
\* for which a token is stored under S, is executed with the token stored for S.
C16_SessionUsesOwnToken ==
    (call # NoCall /\ call.stored # "") => call.token = call.stored

\* C17: a call arriving on session S is never executed with a token read from
\* the entry of another session id, whatever the arguments of the call.
C17_NoForeignSessionToken ==
    (call # NoCall /\ call.fromSession) => call.key = call.session

\* C18: no token received through POST /auth is ever written to disk.
C18_TokensNeverOnDisk == tokenFile = ""

\* C20 as stated: every session token stored via POST /auth is eventually
\* deleted; no session token remains stored forever.
C20_EveryTokenEventuallyDeleted ==
    \A s \in SessionIds :
        (sessionTokens[s] # NoEntry) ~> (sessionTokens[s] = NoEntry)

\* C20, amended: a session id either has no entry again and again, or
\* POST /auth keeps storing a token for it: an entry that is not stored
\* anew is eventually deleted.
C20_DeletedUnlessStoredAnew ==
    \A s \in SessionIds :
        \/ []<>(sessionTokens[s] = NoEntry)
        \/ []<><<AuthPostFor(s)>>_vars

\* C20 witness: the periodic cleanup has deleted the token of a session whose
\* SSE connection is still open.
C20_Witness ==
    /\ lastRemoval = "cleanup"
    /\ \E s \in transports : sessionTokens[s] = NoEntry /\ s \notin sessionTransports

\* ===================================================== the rate limiter
\* RateLimiter (lines 100-135) and the prefix of the request callback of
\* runHttp that consults it (lines 500-515).  What the handlers do with a
\* request that was let through is SpecServer's part.
Paths == {"/health", "/auth", "/message"}

\* Line 502: (x-forwarded-for || remoteAddress || 'unknown').split(',')[0].trim();
\* forwardedFor is the first element of the header ("" : no header).
ClientIp(forwardedFor, remoteAddress) ==
    IF forwardedFor # "" THEN forwardedFor ELSE remoteAddress

\* check, line 114: !record || now > record.resetTime
WindowExpired(record) == record = NoRecord \/ now > record.resetTime

\* check: its return value.
CheckAccepts(identifier) ==
    \/ WindowExpired(requests[identifier])
    \/ requests[identifier].count < maxRequests

\* check: the record of the identifier after the call.
CheckRecordCountsRefused(identifier) ==
    LET record == requests[identifier]
    IN  IF WindowExpired(record)
        THEN [count |-> 1, resetTime |-> now + windowMs]
        ELSE [record EXCEPT !.count = @ + 1]
CheckRecord(identifier) ==
    LET record == requests[identifier]
    IN  IF WindowExpired(record)
        THEN [count |-> 1, resetTime |-> now + windowMs]
        ELSE IF record.count >= maxRequests
             THEN record
             ELSE [record EXCEPT !.count = @ + 1]

\* The times of accepted that lie in the last windowMs before (and at) t.
InLastWindow(times, t) == SelectSeq(times, LAMBDA a : a > t - windowMs)

InitRateLimit ==
    /\ now = 0
    /\ requests = [ip \in ClientIps |-> NoRecord]
    /\ accepted = [ip \in ClientIps |-> <<>>]
    /\ response = NoResponse
    /\ ServerIdle
    /\ TilerIdle
    /\ EncoderIdle
    /\ CropperIdle
    /\ PipelineIdle
    /\ AuthIdle
    /\ FsIdle

\* A request arrives: every path but /health goes through check; a refused
\* request is answered 429 and the callback returns.
HttpRequest(forwardedFor, remoteAddress, path) ==
    LET clientIp == ClientIp(forwardedFor, remoteAddress)
        limited == path # "/health"
        refused == limited /\ ~CheckAccepts(clientIp)
    IN  /\ requests' = IF limited
                       THEN [requests EXCEPT ![clientIp] = CheckRecord(clientIp)]
                       ELSE requests
        /\ response' = [clientIp |-> clientIp, path |-> path,
                        refused |-> refused, processed |-> ~refused]
        /\ accepted' = IF limited /\ ~refused
                       THEN [accepted EXCEPT ![clientIp] = Append(@, now)]
                       ELSE accepted
        /\ UNCHANGED now
        /\ UNCHANGED <<serverVars, tileVars, encVars, cropVars, pipeVars,
                   authVars, fsVars>>

\* The interval timer of the RateLimiter constructor fires: cleanup.
LimiterCleanup ==
    /\ requests' = [ip \in ClientIps |->
                        IF requests[ip] # NoRecord /\ now > requests[ip].resetTime
                        THEN NoRecord
                        ELSE requests[ip]]
    /\ UNCHANGED <<now, accepted, response>>
    /\ UNCHANGED <<serverVars, tileVars, encVars, cropVars, pipeVars,
                   authVars, fsVars>>

\* One millisecond passes.
ClockTick ==
    /\ now < MaxClock
    /\ now' = now + 1
    /\ accepted' = [ip \in ClientIps |-> InLastWindow(accepted[ip], now + 1)]
    /\ UNCHANGED <<requests, response>>
    /\ UNCHANGED <<serverVars, tileVars, encVars, cropVars, pipeVars,
                   authVars, fsVars>>

NextRateLimit ==
    \/ \E forwardedFor \in {""} \cup ClientIps, remoteAddress \in ClientIps,
          path \in Paths :
            HttpRequest(forwardedFor, remoteAddress, path)
    \/ LimiterCleanup
    \/ ClockTick

SpecRateLimit == InitRateLimit /\ [][NextRateLimit]_vars

\* ----------------------------------------------- rate limiter: the claims
\* C19: for each client IP at most maxRequests requests to endpoints other
\* than /health are accepted in any interval of windowMs, and a refused
\* request is answered 429 without being processed.
C19_AtMostMaxPerInterval ==
    /\ \A ip \in ClientIps : Len(accepted[ip]) <= maxRequests
    /\ (response # NoResponse /\ response.refused) => ~response.processed

\* What a request step does to the limiter's records: a refused request
\* changes no record, a request changes no other client's record, and a
\* request of a client whose window is over (now > resetTime) is accepted
\* and opens a new window.
RefusalFrame ==
    \A clientIp \in ClientIps, path \in Paths :
        HttpRequest("", clientIp, path) =>
              /\ response'.refused => requests' = requests
              /\ \A other \in ClientIps \ {clientIp} : requests'[other] = requests[other]
              /\ (/\ path # "/health"
                  /\ requests[clientIp] # NoRecord
                  /\ requests[clientIp].count >= maxRequests
                  /\ now > requests[clientIp].resetTime) =>
                    /\ ~response'.refused
                    /\ requests'[clientIp] = [count |-> 1, resetTime |-> now + windowMs]

\* C40: a request refused by the rate limiter leaves the client's counter
\* and reset time unchanged, so a refused client is accepted again at its
\* first request after its window's reset time; other clients' counters are
\* never affected.
C40_RefusalChangesNothing == [][RefusalFrame]_vars

\* C40 witness: a client at its limit has just been refused while another
\* client has a record of its own that is not at the limit.
C40_Witness ==
    /\ response # NoResponse
    /\ response.refused
    /\ requests[response.clientIp].count = maxRequests
    /\ \E other \in ClientIps \ {response.clientIp} :
          /\ requests[other] # NoRecord
          /\ requests[other].count < maxRequests

\* ===================================================== ImageCropper
\* generateCrops and generateCropRegions (crops.js, part_001 lines 58-213).

\* Math.round(num / den) for num >= 0, den > 0: halves round up.
Round(num, den) == (2 * num + den) \div (2 * den)

\* isLandscape = width > height
IsLandscapeOrSquare(width, height) == width >= height
IsLandscape(width, height) == width > height

\* size >= minSize * 0.5
AtLeastHalf(size, minSize) == 2 * size >= minSize

\* width >= minSize * 1.5
WideEnoughForEdges(width, minSize) == 2 * width >= 3 * minSize

\* The candidate regions in the order of lines 121-211, each with the
\* condition under which it is pushed.
RegionCandidates(width, height, minSize) ==
    LET headerHeight == Min(Round(height, 5), minSize)
        topLeftSize == Min(minSize, Round(2 * width, 5))
        topRightSize == Min(minSize, Round(2 * width, 5))
        centerSize == Min(minSize, Round(3 * Min(width, height), 5))
        centerX == Round(width - centerSize, 2)
        centerY == Round(height - centerSize, 2)
        footerHeight == Min(Round(height, 4), minSize)
        footerY == height - footerHeight
        bottomRightSize == Min(minSize, Round(3 * width, 10))
        sideWidth == Min(minSize, Round(3 * width, 10))
        landscape == IsLandscape(width, height)
    IN  << [include |-> AtLeastHalf(headerHeight, minSize),
            region |-> [name |-> "header", x |-> 0, y |-> 0,
                        w |-> width, h |-> headerHeight]],
           [include |-> AtLeastHalf(topLeftSize, minSize),
            region |-> [name |-> "top_left", x |-> 0, y |-> 0,
                        w |-> topLeftSize, h |-> topLeftSize]],
           [include |-> AtLeastHalf(topRightSize, minSize),
            region |-> [name |-> "top_right", x |-> width - topRightSize, y |-> 0,
                        w |-> topRightSize, h |-> topRightSize]],
           [include |-> AtLeastHalf(centerSize, minSize),
            region |-> [name |-> "center", x |-> centerX, y |-> centerY,
                        w |-> centerSize, h |-> centerSize]],
           [include |-> AtLeastHalf(footerHeight, minSize),
            region |-> [name |-> "footer", x |-> 0, y |-> footerY,
                        w |-> width, h |-> footerHeight]],
           [include |-> AtLeastHalf(bottomRightSize, minSize) /\ landscape,
            region |-> [name |-> "bottom_right", x |-> width - bottomRightSize,
                        y |-> height - bottomRightSize,
                        w |-> bottomRightSize, h |-> bottomRightSize]],
           [include |-> landscape /\ WideEnoughForEdges(width, minSize),
            region |-> [name |-> "left_edge", x |-> 0, y |-> 0,
                        w |-> sideWidth, h |-> height]],
           [include |-> landscape /\ WideEnoughForEdges(width, minSize),
            region |-> [name |-> "right_edge", x |-> width - sideWidth, y |-> 0,
                        w |-> sideWidth, h |-> height]] >>

\* The regions of the candidates that are pushed, in order.
RECURSIVE Included(_)
Included(candidates) ==
    IF candidates = <<>>
    THEN <<>>
    ELSE IF Head(candidates).include
         THEN <<Head(candidates).region>> \o Included(Tail(candidates))
         ELSE Included(Tail(candidates))

\* generateCropRegions: nothing for an image smaller than minSize.
GenerateCropRegionsNoSizeCheck(width, height, minSize) ==
    Included(RegionCandidates(width, height, minSize))
GenerateCropRegions(width, height, minSize) ==
    IF width < minSize \/ height < minSize
    THEN <<>>
    ELSE Included(RegionCandidates(width, height, minSize))

\* sanitizeName: lower case, every run of characters outside a-z0-9 becomes
\* "_"; the names of the region vocabulary, which it maps as follows.
SanitizeName(name) ==
    CASE name = "header" -> "header"
      [] name = "top_left" -> "top_left"
      [] name = "top_right" -> "top_right"
      [] name = "center" -> "center"
      [] name = "footer" -> "footer"
      [] name = "bottom_right" -> "bottom_right"
      [] name = "left_edge" -> "left_edge"
      [] name = "right_edge" -> "right_edge"

\* join(outputDir, `crop_${cropIndex}_${sanitizeName(region.name)}.${ext}`)
CropPath(index, region) ==
    [dir |-> "crops", name |-> <<"crop", index, SanitizeName(region.name)>>,
     ext |-> Extension(cropFormat)]

\* The record pushed for a region; bytes, width, height are copied from the
\* encoder's result unread.
CropRecord(index, region) ==
    [path |-> FinalOutputPath(CropPath(index, region), cropFormat),
     name |-> region.name,
     x |-> region.x, y |-> region.y, w |-> region.w, h |-> region.h]

\* The documented samples: landscape, too small, portrait of equal area.
CropSamples == {<<2000, 1000, 400>>, <<500, 500, 768>>, <<1000, 2000, 400>>}

CropInputs ==
    ((0..MaxCropDim) \X (0..MaxCropDim) \X (1..MaxMinCrop)) \cup CropSamples

InitCrops ==
    /\ \E input \in CropInputs :
        /\ cropWidth = input[1]
        /\ cropHeight = input[2]
        /\ minCropSize = input[3]
    /\ cropFormat \in {"webp", "jpeg"}
    /\ cpc = "start"
    /\ cropRegions = <<>>
    /\ regionIndex = 0
    /\ crops = <<>>
    /\ cropIndex = 0
    /\ cropsReturned = NoResult
    /\ cropFailed = <<>>
    /\ TilerIdle
    /\ EncoderIdle
    /\ ServerIdle
    /\ LimiterIdle
    /\ PipelineIdle
    /\ AuthIdle
    /\ FsIdle

cropInputs == <<cropWidth, cropHeight, minCropSize, cropFormat>>

\* The for loop moves to the next region, or generateCrops returns crops.
CropLoopBreaks(results) ==
    /\ cpc' = "done"
    /\ cropsReturned' = [crops |-> results]
    /\ UNCHANGED regionIndex
CropLoopNext(results) ==
    IF regionIndex < Len(cropRegions)
    THEN /\ regionIndex' = regionIndex + 1
         /\ UNCHANGED <<cpc, cropsReturned>>
    ELSE /\ cpc' = "done"
         /\ cropsReturned' = [crops |-> results]
         /\ UNCHANGED regionIndex

\* Lines 64-76: read the dimensions, refuse a zero dimension, compute the
\* regions and enter the loop; with no region the loop falls through to
\* "return crops".
StartCrops ==
    /\ cpc = "start"
    /\ IF cropWidth = 0 \/ cropHeight = 0
       THEN /\ cpc' = "failed"
            /\ UNCHANGED <<cropRegions, regionIndex, cropsReturned>>
       ELSE LET regions == GenerateCropRegions(cropWidth, cropHeight, minCropSize)
            IN  /\ cropRegions' = regions
                /\ IF regions = <<>>
                   THEN /\ cpc' = "done"
                        /\ cropsReturned' = [crops |-> <<>>]
                        /\ UNCHANGED regionIndex
                   ELSE /\ cpc' = "loop"
                        /\ regionIndex' = 1
                        /\ UNCHANGED cropsReturned
    /\ UNCHANGED <<crops, cropIndex, cropFailed>>
    /\ UNCHANGED cropInputs
    /\ UNCHANGED <<tileVars, encVars, httpVars, pipeVars,
                   authVars, fsVars>>

\* Lines 77-100: encodeToFit of the current region returned.
CropEncoded ==
    /\ cpc = "loop"
    /\ LET region == cropRegions[regionIndex]
           results == Append(crops, CropRecord(cropIndex, region))
       IN  /\ crops' = results
           /\ cropIndex' = cropIndex + 1
           /\ CropLoopNext(results)
    /\ UNCHANGED <<cropRegions, cropFailed>>
    /\ UNCHANGED cropInputs
    /\ UNCHANGED <<tileVars, encVars, httpVars, pipeVars,
                   authVars, fsVars>>

\* Lines 102-105: encodeToFit of the current region threw; the catch warns.
CropEncodeThrows ==
    /\ cpc = "loop"
    /\ cropFailed' = Append(cropFailed, cropRegions[regionIndex].name)
    /\ CropLoopNext(crops)
    /\ UNCHANGED <<cropRegions, crops, cropIndex>>
    /\ UNCHANGED cropInputs
    /\ UNCHANGED <<tileVars, encVars, httpVars, pipeVars,
                   authVars, fsVars>>

NextCrops ==
    \/ StartCrops
    \/ CropEncoded
    \/ CropEncodeThrows

SpecCrops == InitCrops /\ [][NextCrops]_vars

\* ---------------------------------------------------- crops: the claims
\* The names of a sequence of regions or crops, in order.
Names(records) == [i \in 1..Len(records) |-> records[i].name]

\* The order of the region table.
RegionOrder ==
    <<"header", "top_left", "top_right", "center", "footer", "bottom_right",
      "left_edge", "right_edge">>

Position(name) == CHOOSE i \in 1..Len(RegionOrder) : RegionOrder[i] = name

InSeq(x, sequence) == \E i \in 1..Len(sequence) : sequence[i] = x

\* The regions were computed (generateCropRegions has returned).
RegionsComputed == cpc \in {"loop", "done"}

\* The size of a region in its constraining dimension.
ConstrainingSize(region) ==
    IF region.name \in {"header", "footer"} THEN region.h ELSE region.w

LandscapeOnly == {"bottom_right", "left_edge", "right_edge"}

\* C23: generateCrops drops a region whose encode fails and continues with the
\* next one; it returns exactly the regions that encoded successfully, each
\* with its own rectangle, in the order of the region table.
C23_FailedCropsDropped ==
    cpc = "done" =>
        LET regionNames == Names(cropRegions)
            returnedCrops == cropsReturned.crops
        IN  /\ Len(returnedCrops) + Len(cropFailed) = Len(cropRegions)
            /\ Names(returnedCrops) =
                    SelectSeq(regionNames, LAMBDA n : ~InSeq(n, cropFailed))
            /\ \A i \in 1..Len(cropFailed) : InSeq(cropFailed[i], regionNames)
            /\ \A i, j \in 1..Len(returnedCrops) :
                    i < j => Position(returnedCrops[i].name) < Position(returnedCrops[j].name)
            /\ \A i \in 1..Len(returnedCrops) :
                    \E k \in 1..Len(cropRegions) :
                        /\ cropRegions[k].name = returnedCrops[i].name
                        /\ cropRegions[k].x = returnedCrops[i].x
                        /\ cropRegions[k].y = returnedCrops[i].y
                        /\ cropRegions[k].w = returnedCrops[i].w
                        /\ cropRegions[k].h = returnedCrops[i].h

\* C23 witness: a region failed and a later region is in the result.
C23_Witness ==
    /\ cpc = "done"
    /\ cropFailed # <<>>
    /\ \E i \in 1..Len(cropsReturned.crops) :
            Position(cropsReturned.crops[i].name) > Position(cropFailed[1])

\* C24: every region produced has a size of at least 0.5 * minCropSize in its
\* constraining dimension.
C24_RegionsAtLeastHalf ==
    RegionsComputed =>
        \A i \in 1..Len(cropRegions) :
            2 * ConstrainingSize(cropRegions[i]) >= minCropSize

\* C25 as stated: if W < minCropSize or H < minCropSize, generateCrops returns
\* an empty sequence without error and without any encode attempt.
C25_TooSmallReturnsEmpty ==
    ((cropWidth < minCropSize \/ cropHeight < minCropSize) /\ cpc # "start") =>
        /\ cpc = "done"
        /\ cropsReturned = [crops |-> <<>>]
        /\ crops = <<>> /\ cropFailed = <<>>

\* C25, amended: the same for an image with nonzero dimensions; a zero
\* dimension is refused with "Invalid image dimensions", also without any
\* encode attempt.
C25_TooSmallNonzeroReturnsEmpty ==
    ((cropWidth < minCropSize \/ cropHeight < minCropSize) /\ cpc # "start") =>
        /\ crops = <<>> /\ cropFailed = <<>> /\ cropRegions = <<>>
        /\ IF cropWidth = 0 \/ cropHeight = 0
           THEN cpc = "failed" /\ cropsReturned = NoResult
           ELSE cpc = "done" /\ cropsReturned = [crops |-> <<>>]

\* C25 witness: the documented sample W = H = 500, minCropSize = 768.
C25_Witness ==
    /\ cropWidth = 500 /\ cropHeight = 500 /\ minCropSize = 768
    /\ cpc = "done" /\ cropsReturned = [crops |-> <<>>]

\* C26: bottom_right, left_edge and right_edge are produced only for landscape
\* images; the sample W = 2000, H = 1000, minCropSize = 400 has all three.
C26_LandscapeOnlyRegions ==
    RegionsComputed =>
        /\ cropHeight >= cropWidth =>
                \A i \in 1..Len(cropRegions) : cropRegions[i].name \notin LandscapeOnly
        /\ (cropWidth = 2000 /\ cropHeight = 1000 /\ minCropSize = 400) =>
                \A n \in LandscapeOnly : InSeq(n, Names(cropRegions))

\* C26 witness: the regions of the landscape sample, the three among them.
C26_Witness ==
    /\ RegionsComputed
    /\ cropWidth = 2000 /\ cropHeight = 1000 /\ minCropSize = 400
    /\ \A n \in LandscapeOnly : InSeq(n, Names(cropRegions))

\* C27: every region produced is a rectangle of the image with a positive
\* width and height.
C27_RegionsValid ==
    RegionsComputed =>
        \A i \in 1..Len(cropRegions) :
            LET r == cropRegions[i]
            IN  /\ r.x >= 0 /\ r.y >= 0
                /\ r.w > 0 /\ r.h > 0
                /\ r.x + r.w <= cropWidth
                /\ r.y + r.h <= cropHeight

\* C27 witness: all eight regions, the centre one at an odd margin.
C27_Witness ==
    /\ RegionsComputed
    /\ Len(cropRegions) = Len(RegionOrder)
    /\ (cropWidth - cropRegions[4].w) % 2 = 1
    /\ cropWidth <= MaxCropDim

\* ===================================================== the pipeline
\* handleProcessFigmaLink from the export on (part_006 lines 301-473) with
\* FigmaExporter.exportAndDownload (export.js 43-80) and
\* FigmaApiClient.getImageExportUrl (api.ts 83-129).  The stages' own work
\* is SpecEncode's, SpecTiles' and SpecCrops'; here a stage returns or throws.

\* What the Figma images endpoint, or the HTTP client, does with a request:
\* a URL for the node, an empty string for it, no entry for it, a status
\* other than 200, or the client throws an error whose message contains
\* "not supported" or one whose message does not.
FigmaReplies ==
    {"url", "empty", "missing", "status", "throwsNotSupported", "throwsOther"}

\* data.images[nodeId] of a reply with status 200.
Undefined == "<undefined>"
ImageEntry(reply) ==
    CASE reply = "url" -> "https://figma/img"
      [] reply = "empty" -> ""
      [] reply = "missing" -> Undefined

\* !value for a string or undefined
Falsy(value) == value = "" \/ value = Undefined

\* The phrases of an error message that contain "not supported".
NotSupportedPhrases == {"Format is not supported for this node", "... not supported ..."}

\* message.includes("not supported"), a message being its phrases in order.
IncludesNotSupported(message) ==
    \E i \in 1..Len(message) : message[i] \in NotSupportedPhrases

\* catch of getImageExportUrl: a FigmaApiError and an error whose message
\* includes "not supported" are rethrown, every other error is wrapped.
Rethrown(message, isApiError) ==
    IF isApiError \/ IncludesNotSupported(message)
    THEN message
    ELSE <<"Failed to get image export URL:">> \o message

\* getImageExportUrl: the URL, or the message of the error it throws.
GetImageExportUrl(reply) ==
    CASE reply = "status" ->
            [ok |-> FALSE,
             message |-> Rethrown(<<"Failed to get image export URL (status)">>, TRUE)]
      [] reply = "throwsNotSupported" ->
            [ok |-> FALSE, message |-> Rethrown(<<"... not supported ...">>, FALSE)]
      [] reply = "throwsOther" ->
            [ok |-> FALSE, message |-> Rethrown(<<"request failed">>, FALSE)]
      [] OTHER ->
            IF Falsy(ImageEntry(reply))
            THEN [ok |-> FALSE,
                  message |-> Rethrown(<<"No image URL returned for node">>, FALSE)]
            ELSE IF Falsy(ImageEntry(reply))
                 THEN [ok |-> FALSE,
                       message |-> Rethrown(<<"Format is not supported for this node">>, FALSE)]
                 ELSE [ok |-> TRUE, message |-> <<>>]

\* join(outputDir, `${baseName}.${extension}`), baseName = "source"
ExportPath(format) ==
    [dir |-> "out", name |-> <<"source">>, ext |-> IF format = "svg" THEN "svg" ELSE "png"]

\* exportedImage.path.replace(/\.svg$/, ".png")
PngPathKeepsSvg(path) == path
PngPath(path) == IF path.ext = "svg" THEN [path EXCEPT !.ext = "png"] ELSE path

\* sourceForProcessing.replace(/\.(png|jpg|jpeg|webp)$/, `_overview.${prefer_format}`)
OverviewPath(path, format) ==
    IF path.ext \in {"png", "jpg", "jpeg", "webp"}
    THEN [dir |-> path.dir, name |-> Append(path.name, "_overview"), ext |-> format]
    ELSE path

\* What generateTiles and generateCrops hand back: the records by name.
TileResults == {<<>>, <<"tile_0_0">>, <<"tile_0_0", "tile_0_1">>}
CropResults == {<<>>, <<"crop_0_header">>, <<"crop_0_header", "crop_1_center">>}

\* convertSvgToPng(exportedImage.path, pngPath, 2)
SvgScale == 2

InitPipeline ==
    /\ forceSourceFormat \in {"auto", "svg", "png"}
    /\ pipeFormat \in {"webp", "jpeg"}
    /\ includeCrops \in BOOLEAN
    /\ ppc = "export"
    /\ requestFormat = "svg"
    /\ exportedImage = NoResult
    /\ sourceForProcessing = NoResult
    /\ overview = NoResult
    /\ pipeTiles = <<>>
    /\ pipeCrops = <<>>
    /\ manifest = NoResult
    /\ pipeResult = NoResult
    /\ requested = <<>>
    /\ conversions = <<>>
    /\ encodes = <<>>
    /\ cropsThrew = FALSE
    /\ replies = <<>>
    /\ TilerIdle
    /\ EncoderIdle
    /\ ServerIdle
    /\ LimiterIdle
    /\ CropperIdle
    /\ AuthIdle
    /\ FsIdle

pipeInputs == <<forceSourceFormat, pipeFormat, includeCrops>>

pipeOthers == <<tileVars, encVars, httpVars, cropVars, authVars, fsVars>>

\* A stage's catch returns { isError: true }.
StageFailsSilently(stage) ==
    /\ ppc' = "done"
    /\ pipeResult' = [isError |-> FALSE, stage |-> stage]
StageFails(stage) ==
    /\ ppc' = "done"
    /\ pipeResult' = [isError |-> TRUE, stage |-> stage]

\* The catch around generateCrops warns and goes on.
CropsFailureAborts ==
    /\ StageFails("crops")
    /\ UNCHANGED pipeCrops
CropsFailureIgnored ==
    /\ ppc' = "manifest"
    /\ pipeCrops' = <<>>
    /\ UNCHANGED pipeResult

\* exportAndDownload, lines 44-71: the first getImageExportUrl call.
ExportStart ==
    /\ ppc = "export"
    /\ ppc' = "request"
    /\ requestFormat' = IF forceSourceFormat = "png" THEN "png" ELSE "svg"
    /\ requested' = <<requestFormat'>>
    /\ UNCHANGED <<exportedImage, sourceForProcessing, overview, pipeTiles,
                   pipeCrops, manifest, pipeResult, conversions, encodes, cropsThrew>>
    /\ UNCHANGED replies
    /\ UNCHANGED pipeInputs
    /\ UNCHANGED pipeOthers

\* getImageExportUrl returned a URL: on to downloadImage.
ExportUrlReturned(reply) ==
    /\ ppc = "request"
    /\ GetImageExportUrl(reply).ok
    /\ ppc' = "download"
    /\ UNCHANGED <<requestFormat, exportedImage, sourceForProcessing, overview,
                   pipeTiles, pipeCrops, manifest, pipeResult, requested,
                   conversions, encodes, cropsThrew>>
    /\ replies' = Append(replies, reply)
    /\ UNCHANGED pipeInputs
    /\ UNCHANGED pipeOthers

\* Lines 52-58: in auto mode the SVG request threw with "not supported" in
\* its message: the PNG export is requested.
ExportFallsBackToPng(reply) ==
    /\ ppc = "request"
    /\ forceSourceFormat = "auto" /\ requestFormat = "svg"
    /\ ~GetImageExportUrl(reply).ok
    /\ IncludesNotSupported(GetImageExportUrl(reply).message)
    /\ requestFormat' = "png"
    /\ requested' = Append(requested, "png")
    /\ UNCHANGED <<ppc, exportedImage, sourceForProcessing, overview, pipeTiles,
                   pipeCrops, manifest, pipeResult, conversions, encodes, cropsThrew>>
    /\ replies' = Append(replies, reply)
    /\ UNCHANGED pipeInputs
    /\ UNCHANGED pipeOthers

\* Every other throw of getImageExportUrl leaves exportAndDownload; the
\* handler answers "Failed to export image from Figma".
ExportThrows(reply) ==
    /\ ppc = "request"
    /\ ~GetImageExportUrl(reply).ok
    /\ ~(/\ forceSourceFormat = "auto" /\ requestFormat = "svg"
         /\ IncludesNotSupported(GetImageExportUrl(reply).message))
    /\ StageFails("export")
    /\ UNCHANGED <<requestFormat, exportedImage, sourceForProcessing, overview,
                   pipeTiles, pipeCrops, manifest, requested, conversions,
                   encodes, cropsThrew>>
    /\ replies' = Append(replies, reply)
    /\ UNCHANGED pipeInputs
    /\ UNCHANGED pipeOthers

\* downloadImage returned: exportedImage is set; a PNG is processed as it is.
Downloaded ==
    /\ ppc = "download"
    /\ exportedImage' = [path |-> ExportPath(requestFormat), format |-> requestFormat]
    /\ sourceForProcessing' = ExportPath(requestFormat)
    /\ ppc' = IF requestFormat = "svg" THEN "convert" ELSE "overview"
    /\ UNCHANGED <<requestFormat, overview, pipeTiles, pipeCrops, manifest,
                   pipeResult, requested, conversions, encodes, cropsThrew>>
    /\ UNCHANGED replies
    /\ UNCHANGED pipeInputs
    /\ UNCHANGED pipeOthers

DownloadThrows ==
    /\ ppc = "download"
    /\ StageFails("export")
    /\ UNCHANGED <<requestFormat, exportedImage, sourceForProcessing, overview,
                   pipeTiles, pipeCrops, manifest, requested, conversions,
                   encodes, cropsThrew>>
    /\ UNCHANGED replies
    /\ UNCHANGED pipeInputs
    /\ UNCHANGED pipeOthers

\* Lines 319-324: convertSvgToPng returned.
SvgConverted ==
    /\ ppc = "convert"
    /\ conversions' = Append(conversions,
            [from |-> exportedImage.path, to |-> PngPath(exportedImage.path),
             scale |-> SvgScale])
    /\ sourceForProcessing' = PngPath(exportedImage.path)
    /\ ppc' = "overview"
    /\ UNCHANGED <<requestFormat, exportedImage, overview, pipeTiles, pipeCrops,
                   manifest, pipeResult, requested, encodes, cropsThrew>>
    /\ UNCHANGED replies
    /\ UNCHANGED pipeInputs
    /\ UNCHANGED pipeOthers

SvgConvertThrows ==
    /\ ppc = "convert"
    /\ StageFails("convert")
    /\ UNCHANGED <<requestFormat, exportedImage, sourceForProcessing, overview,
                   pipeTiles, pipeCrops, manifest, requested, conversions,
                   encodes, cropsThrew>>
    /\ UNCHANGED replies
    /\ UNCHANGED pipeInputs
    /\ UNCHANGED pipeOthers

\* An entry of encodes: the stage, its source, the conversions made before.
EncodeEntry(stage) ==
    [stage |-> stage, source |-> sourceForProcessing, after |-> Len(conversions)]

\* Lines 339-346: encodeToFit for the overview returned.
OverviewEncoded ==
    /\ ppc = "overview"
    /\ overview' = [path |-> FinalOutputPath(
                                OverviewPath(sourceForProcessing, pipeFormat), pipeFormat),
                    format |-> pipeFormat]
    /\ encodes' = Append(encodes, EncodeEntry("overview"))
    /\ ppc' = "tiles"
    /\ UNCHANGED <<requestFormat, exportedImage, sourceForProcessing, pipeTiles,
                   pipeCrops, manifest, pipeResult, requested, conversions, cropsThrew>>
    /\ UNCHANGED replies
    /\ UNCHANGED pipeInputs
    /\ UNCHANGED pipeOthers

\* Lines 347-357.
OverviewThrows ==
    /\ ppc = "overview"
    /\ encodes' = Append(encodes, EncodeEntry("overview"))
    /\ StageFails("overview")
    /\ UNCHANGED <<requestFormat, exportedImage, sourceForProcessing, overview,
                   pipeTiles, pipeCrops, manifest, requested, conversions, cropsThrew>>
    /\ UNCHANGED replies
    /\ UNCHANGED pipeInputs
    /\ UNCHANGED pipeOthers

\* Lines 359-368 and 382-383: generateTiles returned; crops only if requested.
TilesGenerated(results) ==
    /\ ppc = "tiles"
    /\ pipeTiles' = results
    /\ encodes' = Append(encodes, EncodeEntry("tiles"))
    /\ ppc' = IF includeCrops THEN "crops" ELSE "manifest"
    /\ UNCHANGED <<requestFormat, exportedImage, sourceForProcessing, overview,
                   pipeCrops, manifest, pipeResult, requested, conversions, cropsThrew>>
    /\ UNCHANGED replies
    /\ UNCHANGED pipeInputs
    /\ UNCHANGED pipeOthers

\* Lines 370-380.
TilesThrow ==
    /\ ppc = "tiles"
    /\ encodes' = Append(encodes, EncodeEntry("tiles"))
    /\ StageFails("tiles")
    /\ UNCHANGED <<requestFormat, exportedImage, sourceForProcessing, overview,
                   pipeTiles, pipeCrops, manifest, requested, conversions, cropsThrew>>
    /\ UNCHANGED replies
    /\ UNCHANGED pipeInputs
    /\ UNCHANGED pipeOthers

\* Lines 384-391: generateCrops returned (crops that failed are not in it).
CropsGenerated(results) ==
    /\ ppc = "crops"
    /\ pipeCrops' = results
    /\ encodes' = Append(encodes, EncodeEntry("crops"))
    /\ ppc' = "manifest"
    /\ UNCHANGED <<requestFormat, exportedImage, sourceForProcessing, overview,
                   pipeTiles, manifest, pipeResult, requested, conversions, cropsThrew>>
    /\ UNCHANGED replies
    /\ UNCHANGED pipeInputs
    /\ UNCHANGED pipeOthers

\* Lines 393-396: generateCrops threw.
CropsThrow ==
    /\ ppc = "crops"
    /\ encodes' = Append(encodes, EncodeEntry("crops"))
    /\ cropsThrew' = TRUE
    /\ CropsFailureIgnored
    /\ UNCHANGED <<requestFormat, exportedImage, sourceForProcessing, overview,
                   pipeTiles, manifest, requested, conversions>>
    /\ UNCHANGED replies
    /\ UNCHANGED pipeInputs
    /\ UNCHANGED pipeOthers

\* Lines 399-473: writeManifest returned; the handler answers with the report.
ManifestWritten ==
    /\ ppc = "manifest"
    /\ manifest' = [sourceFormatUsed |-> exportedImage.format,
                    originalPath |-> exportedImage.path,
                    overview |-> overview.path,
                    tiles |-> pipeTiles,
                    crops |-> IF Len(pipeCrops) > 0 THEN [list |-> pipeCrops] ELSE NoResult]
    /\ ppc' = "done"
    /\ pipeResult' = [isError |-> FALSE, stage |-> "manifest"]
    /\ UNCHANGED <<requestFormat, exportedImage, sourceForProcessing, overview,
                   pipeTiles, pipeCrops, requested, conversions, encodes, cropsThrew>>
    /\ UNCHANGED replies
    /\ UNCHANGED pipeInputs
    /\ UNCHANGED pipeOthers

\* writeManifest threw: the outer catch, lines 475-485.
ManifestThrows ==
    /\ ppc = "manifest"
    /\ StageFails("manifest")
    /\ UNCHANGED <<requestFormat, exportedImage, sourceForProcessing, overview,
                   pipeTiles, pipeCrops, manifest, requested, conversions,
                   encodes, cropsThrew>>
    /\ UNCHANGED replies
    /\ UNCHANGED pipeInputs
    /\ UNCHANGED pipeOthers

NextPipeline ==
    \/ ExportStart
    \/ \E reply \in FigmaReplies : ExportUrlReturned(reply)
    \/ \E reply \in FigmaReplies : ExportFallsBackToPng(reply)
    \/ \E reply \in FigmaReplies : ExportThrows(reply)
    \/ Downloaded
    \/ DownloadThrows
    \/ SvgConverted
    \/ SvgConvertThrows
    \/ OverviewEncoded
    \/ OverviewThrows
    \/ \E results \in TileResults : TilesGenerated(results)
    \/ TilesThrow
    \/ \E results \in CropResults : CropsGenerated(results)
    \/ CropsThrow
    \/ ManifestWritten
    \/ ManifestThrows

SpecPipeline == InitPipeline /\ [][NextPipeline]_vars

\* --------------------------------------------------- pipeline: the claims
\* The stages whose encodeToFit calls have been made so far.
EncodedStages == {encodes[i].stage : i \in 1..Len(encodes)}

SvgExported == exportedImage # NoResult /\ exportedImage.format = "svg"

\* C21: a failure of the overview encode or of tile generation aborts the
\* operation: the result is an error, no later stage runs (no tiles after a
\* failed overview, no crops after failed tiles), and no manifest is written.
C21_OverviewOrTilesFailureAborts ==
    (pipeResult # NoResult /\ pipeResult.stage \in {"overview", "tiles"}) =>
        /\ pipeResult.isError
        /\ ppc = "done"
        /\ manifest = NoResult
        /\ pipeCrops = <<>>
        /\ "crops" \notin EncodedStages
        /\ pipeResult.stage = "overview" =>
               (overview = NoResult /\ pipeTiles = <<>> /\ "tiles" \notin EncodedStages)
        /\ ~ENABLED NextPipeline

C21_Witness ==
    /\ pipeResult # NoResult
    /\ pipeResult.stage = "tiles"
    /\ includeCrops
    /\ overview # NoResult

\* C22: a failure during crop generation never ends the operation: after the
\* crops stage, whether generateCrops threw or returned with crops left out,
\* the pipeline is at the manifest write, and only that write decides the
\* result; once it returns, the manifest holds the overview and all tiles
\* and the call returns success.
C22_CropFailureDoesNotAbort ==
    (cropsThrew \/ "crops" \in EncodedStages) =>
        /\ ppc \in {"manifest", "done"}
        /\ cropsThrew => pipeCrops = <<>>
        /\ ppc = "manifest" => (pipeResult = NoResult /\ ENABLED ManifestWritten)
        /\ ppc = "done" =>
              /\ pipeResult.stage = "manifest"
              /\ ~pipeResult.isError =>
                    /\ manifest # NoResult
                    /\ manifest.overview = overview.path
                    /\ manifest.tiles = pipeTiles

C22_Witness ==
    /\ cropsThrew
    /\ ppc = "done"
    /\ ~pipeResult.isError
    /\ manifest # NoResult
    /\ Len(manifest.tiles) = 2
    /\ manifest.crops = NoResult

\* C28: in auto mode the SVG export is requested first, and when Figma
\* returns an empty or missing image URL for it the PNG export is requested
\* and the exported format is png.
C28_SvgUnavailableFallsBackToPng ==
    /\ (forceSourceFormat = "auto" /\ requested # <<>>) => requested[1] = "svg"
    /\ (forceSourceFormat = "auto" /\ replies # <<>> /\ replies[1] \in {"empty", "missing"}) =>
          /\ requested = <<"svg", "png">>
          /\ exportedImage # NoResult => exportedImage.format = "png"

\* C29: the overview is written to <outputDir>/<baseName>_overview.<ext>,
\* <ext> being webp for webp and jpg for jpeg, and the manifest records
\* exactly that path.
C29_OverviewPath ==
    /\ overview # NoResult =>
          overview.path = [dir |-> "out", name |-> <<"source", "_overview">>,
                           ext |-> IF pipeFormat = "webp" THEN "webp" ELSE "jpg"]
    /\ manifest # NoResult => manifest.overview = overview.path

\* C30: when the exported source is SVG it is rasterized exactly once, at
\* scale 2, into a PNG before the first encodeToFit call, and the overview,
\* the tiles and the crops are all encoded from that PNG, never from the SVG.
C30_SvgRasterizedOnceBeforeEncodes ==
    SvgExported =>
        /\ Len(conversions) <= 1
        /\ \A i \in 1..Len(conversions) :
              /\ conversions[i].from = exportedImage.path
              /\ conversions[i].scale = 2
              /\ conversions[i].to.ext = "png"
        /\ \A i \in 1..Len(encodes) :
              /\ encodes[i].after = 1
              /\ encodes[i].source = conversions[1].to
              /\ encodes[i].source # exportedImage.path
              /\ encodes[i].source.ext = "png"

C30_Witness ==
    /\ SvgExported
    /\ EncodedStages = {"overview", "tiles", "crops"}
    /\ Len(pipeTiles) = 2
    /\ Len(pipeCrops) = 2
    /\ manifest # NoResult

\* ===================================================== output directories
\* generateOutputDir (util/fs.ts 13-22), line 271 of handleProcessFigmaLink,
\* and the "create the directory unless it exists" step of ensureDir
\* (util/fs.ts 27-31) and of encodeToFit (tiles.js 89-93), for two
\* invocations whose awaits interleave.

\* resolve(baseDir, `${timestamp}`) with the default baseDir and useTimestamp.
GenerateOutputDir(timestamp) == [given |-> "", stamp |-> timestamp]

\* const outputDir = out_dir || generateOutputDir()
OutputDir(argument, timestamp) ==
    IF argument # "" THEN [given |-> argument, stamp |-> 0]
    ELSE GenerateOutputDir(timestamp)

\* mkdir(dir, { recursive: true }) resolves whether or not dir exists;
\* without the option it rejects with EEXIST for an existing directory.
MkdirNotRecursive(exists) == ~exists
MkdirResolves(exists) == TRUE

InitFs ==
    /\ fsNow = 0
    /\ dirArg \in [Invocations -> {"", "shared"}]
    /\ fpc = [i \in Invocations |-> "start"]
    /\ outDir = [i \in Invocations |-> NoDir]
    /\ existing = {}
    /\ raced = [i \in Invocations |-> FALSE]
    /\ TilerIdle
    /\ EncoderIdle
    /\ ServerIdle
    /\ LimiterIdle
    /\ CropperIdle
    /\ PipelineIdle
    /\ AuthIdle

fsOthers == <<tileVars, encVars, httpVars, cropVars, pipeVars, authVars>>

\* Line 271: the invocation settles its output directory.
ChooseOutputDir(i) ==
    /\ fpc[i] = "start"
    /\ outDir' = [outDir EXCEPT ![i] = OutputDir(dirArg[i], fsNow)]
    /\ fpc' = [fpc EXCEPT ![i] = "check"]
    /\ UNCHANGED <<fsNow, dirArg, existing, raced>>
    /\ UNCHANGED fsOthers

\* if (!existsSync(dir)): the synchronous test, before the await of mkdir.
ExistsCheck(i) ==
    /\ fpc[i] = "check"
    /\ fpc' = [fpc EXCEPT ![i] = IF outDir[i] \in existing THEN "write" ELSE "mkdir"]
    /\ UNCHANGED <<fsNow, dirArg, outDir, existing, raced>>
    /\ UNCHANGED fsOthers

\* await mkdir(dir, { recursive: true }), carried out after the test.
Mkdir(i) ==
    /\ fpc[i] = "mkdir"
    /\ IF MkdirResolves(outDir[i] \in existing)
       THEN /\ existing' = existing \cup {outDir[i]}
            /\ fpc' = [fpc EXCEPT ![i] = "write"]
       ELSE /\ fpc' = [fpc EXCEPT ![i] = "failed"]
            /\ UNCHANGED existing
    /\ raced' = [raced EXCEPT ![i] = outDir[i] \in existing]
    /\ UNCHANGED <<fsNow, dirArg, outDir>>
    /\ UNCHANGED fsOthers

\* The write into the directory (toFile, writeFile).
WriteInto(i) ==
    /\ fpc[i] = "write"
    /\ outDir[i] \in existing
    /\ fpc' = [fpc EXCEPT ![i] = "done"]
    /\ UNCHANGED <<fsNow, dirArg, outDir, existing, raced>>
    /\ UNCHANGED fsOthers

\* One millisecond passes.
FsTick ==
    /\ fsNow < MaxFsClock
    /\ fsNow' = fsNow + 1
    /\ UNCHANGED <<dirArg, fpc, outDir, existing, raced>>
    /\ UNCHANGED fsOthers

NextFs ==
    \/ \E i \in Invocations : ChooseOutputDir(i)
    \/ \E i \in Invocations : ExistsCheck(i)
    \/ \E i \in Invocations : Mkdir(i)
    \/ \E i \in Invocations : WriteInto(i)
    \/ FsTick

SpecFs == InitFs /\ [][NextFs]_vars

\* ------------------------------------------ output directories: the claims
\* C31: creating an output directory before a write is idempotent and
\* race-safe: when the directory already exists, also when another operation
\* created it between the existence test and the mkdir, the creation does
\* not fail and the write proceeds into an existing directory.
C31_DirectoryCreationRaceSafe ==
    \A i \in Invocations :
        /\ fpc[i] # "failed"
        /\ fpc[i] \in {"write", "done"} => outDir[i] \in existing
        /\ fpc[i] = "write" => ENABLED WriteInto(i)

\* C31 witness: an invocation whose mkdir found the directory created by the
\* other one after its own test has completed its write.
C31_Witness ==
    \E i \in Invocations :
        /\ raced[i]
        /\ fpc[i] = "done"
        /\ \E j \in Invocations \ {i} : outDir[j] = outDir[i] /\ fpc[j] = "done"

\* C32: two invocations that do not pass out_dir never get the same output
\* directory from generateOutputDir.
C32_OutputDirsDistinct ==
    \A i, j \in Invocations :
        (/\ i # j
         /\ dirArg[i] = "" /\ dirArg[j] = ""
         /\ outDir[i] # NoDir /\ outDir[j] # NoDir) => outDir[i] # outDir[j]

\* ===================================================== device codes, /auth
\* /oauth/token (part_006 lines 566-614), /device/authorize (626-659) and
\* /auth (692-740).  createdAt of a device code is kept as its age.

\* POST /auth, line 730: the answer is { success: true, authenticated: true,
\* sessionId } whatever was stored.
AuthPostAnswered(sessionId, token, written) ==
    /\ AuthStore(sessionId, token, written)
    /\ authReply' = [endpoint |-> "POST /auth", key |-> sessionId,
                     outcome |-> "authenticated"]
    /\ UNCHANGED deviceCodes

\* GET /auth, lines 696-697: hasToken.
HasToken(sessionId) ==
    IF sessionId # "" THEN HasSessionToken(sessionId) ELSE figmaToken # ""

\* GET /auth?session_id=S ("" : no parameter).
AuthGet(sessionId) ==
    /\ authReply' = [endpoint |-> "GET /auth", key |-> sessionId,
                     outcome |-> IF HasToken(sessionId) THEN "authenticated"
                                 ELSE "unauthenticated"]
    /\ call' = NoCall
    /\ lastRemoval' = "none"
    /\ UNCHANGED <<figmaToken, tokenFile, sessionTokens, transports, sessionTransports>>
    /\ UNCHANGED deviceCodes
    /\ UNCHANGED <<limiterVars, tileVars, encVars, cropVars, pipeVars, fsVars>>

\* POST /device/authorize: a fresh device code is stored, verified exactly
\* when a global token is configured at that moment.
DeviceAuthorize(deviceCode) ==
    /\ deviceCodes[deviceCode] = NoEntry
    /\ deviceCodes' = [deviceCodes EXCEPT ![deviceCode] =
                          [verified |-> figmaToken # "", age |-> 0]]
    /\ authReply' = [endpoint |-> "/device/authorize", key |-> deviceCode,
                     outcome |-> "issued"]
    /\ call' = NoCall
    /\ lastRemoval' = "none"
    /\ UNCHANGED <<figmaToken, tokenFile, sessionTokens, transports, sessionTransports>>
    /\ UNCHANGED <<limiterVars, tileVars, encVars, cropVars, pipeVars, fsVars>>

\* Line 585: Date.now() - deviceInfo.createdAt > 600000
DeviceCodeExpired(entry) == entry.age > DeviceCodeLifetime

\* Lines 566-614: the answer of /oauth/token.
OAuthOutcome(grantType, deviceCode) ==
    IF grantType # "device_code" THEN "access_token"
    ELSE IF deviceCode = "" THEN "invalid_grant"
    ELSE IF deviceCodes[deviceCode] = NoEntry THEN "invalid_grant"
    ELSE IF DeviceCodeExpired(deviceCodes[deviceCode]) THEN "expired_token"
    ELSE IF figmaToken # "" /\ deviceCodes[deviceCode].verified THEN "access_token"
    ELSE "authorization_pending"

\* POST /oauth/token; an expired device code is deleted.
OAuthToken(grantType, deviceCode) ==
    /\ authReply' = [endpoint |-> "/oauth/token", key |-> deviceCode,
                     outcome |-> OAuthOutcome(grantType, deviceCode)]
    /\ deviceCodes' = IF OAuthOutcome(grantType, deviceCode) = "expired_token"
                      THEN [deviceCodes EXCEPT ![deviceCode] = NoEntry]
                      ELSE deviceCodes
    /\ call' = NoCall
    /\ lastRemoval' = "none"
    /\ UNCHANGED <<figmaToken, tokenFile, sessionTokens, transports, sessionTransports>>
    /\ UNCHANGED <<limiterVars, tileVars, encVars, cropVars, pipeVars, fsVars>>

\* Time passes: every device code gets one tick older (ages above the
\* lifetime are not told apart).
DeviceTick ==
    /\ deviceCodes' = [d \in DeviceCodes |->
            IF deviceCodes[d] = NoEntry
            THEN NoEntry
            ELSE [deviceCodes[d] EXCEPT !.age = Min(@ + 1, DeviceCodeLifetime + 1)]]
    /\ authReply' = NoReply
    /\ call' = NoCall
    /\ lastRemoval' = "none"
    /\ UNCHANGED <<figmaToken, tokenFile, sessionTokens, transports, sessionTransports>>
    /\ UNCHANGED <<limiterVars, tileVars, encVars, cropVars, pipeVars, fsVars>>

InitAuth ==
    /\ figmaToken \in {""} \cup Tokens
    /\ tokenFile = ""
    /\ sessionTokens = [s \in SessionIds |-> NoEntry]
    /\ transports = {}
    /\ sessionTransports = {}
    /\ call = NoCall
    /\ lastRemoval = "none"
    /\ AuthIdle
    /\ LimiterIdle
    /\ TilerIdle
    /\ EncoderIdle
    /\ CropperIdle
    /\ PipelineIdle
    /\ FsIdle

NextAuth ==
    \/ \E sessionId \in {""} \cup SessionIds, token \in {""} \cup Tokens,
          written \in BOOLEAN : AuthPostAnswered(sessionId, token, written)
    \/ \E sessionId \in {""} \cup SessionIds : AuthGet(sessionId)
    \/ \E deviceCode \in DeviceCodes : DeviceAuthorize(deviceCode)
    \/ \E grantType \in {"device_code", "other"}, deviceCode \in {""} \cup DeviceCodes :
            OAuthToken(grantType, deviceCode)
    \/ DeviceTick

SpecAuth == InitAuth /\ [][NextAuth]_vars

\* ------------------------------------------------ device codes: the claims
\* A poll with a device code that was issued while no token was configured
\* (it is stored unverified), made before the code expires and while a
\* global token is configured, is answered with an access token.
PollAfterToken ==
    \A d \in DeviceCodes :
        (/\ OAuthToken("device_code", d)
         /\ deviceCodes[d] # NoEntry
         /\ ~deviceCodes[d].verified
         /\ ~DeviceCodeExpired(deviceCodes[d])
         /\ figmaToken # "") => authReply'.outcome = "access_token"

\* C38: a device code issued by /device/authorize while no Figma token is
\* configured, followed by a token submitted through POST /auth before the
\* code expires, makes a later poll of /oauth/token with that code return an
\* access token instead of authorization_pending.
C38_PollSucceedsAfterAuth == [][PollAfterToken]_vars

\* A GET /auth right after a POST /auth that answered authenticated: true,
\* for the same session id (none when none was posted), answers
\* authenticated: true.
GetAfterPost ==
    \A s \in {""} \cup SessionIds :
        (/\ authReply.endpoint = "POST /auth"
         /\ authReply.key = s
         /\ authReply.outcome = "authenticated"
         /\ AuthGet(s)) => authReply'.outcome = "authenticated"

\* C39: after a POST /auth answered with success and authenticated: true, a
\* GET /auth for the same session id reports authenticated: true, for every
\* posted token value including the empty one.
C39_GetAuthAgreesWithPost == [][GetAfterPost]_vars

====
